---- MODULE Spec2Model ----
(***************************************************************************)
(* A model of the event-ingestion core of the o3din bot:                   *)
(*   - decodeJid, the identity normalizer            (socket.js 46-54)     *)
(*   - MessageQueue, the processing batcher          (socket.js 61-101)    *)
(*   - conn.pushMessage, the per-message task        (socket.js 363-538)   *)
(*   - the store accessors and the event handlers    (socket.js 606-1560)  *)
(*                                                                         *)
(* Strings that the code inspects (identifiers, store keys) are sequences  *)
(* of tokens: a digit, ":", "@", or a whole word such as "s.whatsapp.net". *)
(* The empty sequence stands for every falsy identifier ("", null,         *)
(* undefined).  An entity is a record; a field the JavaScript object does  *)
(* not carry is a field the record does not have.  A chat's `messages` map *)
(* is modelled by the sequence of its keys in Object.keys order, which is  *)
(* insertion order for the non-numeric message ids the transport issues.   *)
(***************************************************************************)
EXTENDS Integers, Sequences, FiniteSets, TLC

VARIABLES
    store,      \* memoryStore: key -> entity, for the keys that are set
    pending,    \* group-metadata fetches issued by handlers, not yet settled
    hist,       \* history of the sequential pushMessage run (SpecWindow)
    nEvents,    \* number of transport events delivered (SpecStore)
    tasks,      \* MessageQueue.tasks
    running,    \* MessageQueue.running
    drain,      \* the invocations of MessageQueue.process that have not returned
    status,     \* per task added: "queued", "started", "fulfilled", "rejected", "done"
    starts,     \* per task: how many times it was started
    sqlite,     \* the SQLite tables: table -> (primary key -> row or blob)
    rowCaches,  \* DataWrapper.rowCaches: table -> the RowCache's Map, in key order
    rows        \* the row objects wrapped by the row proxies handed out so far

vars ==
    <<store, pending, hist, nEvents, tasks, running, drain, status, starts,
      sqlite, rowCaches, rows>>
storeVars == <<store, pending, nEvents>>
queueVars == <<tasks, running, drain, status, starts>>
configVars == <<sqlite, rowCaches, rows>>

-----------------------------------------------------------------------------
(* Small helpers on sequences and records *)

Range(s) == {s[i] : i \in 1..Len(s)}

Last(s, n) == IF Len(s) <= n THEN s ELSE SubSeq(s, Len(s) - n + 1, Len(s))

HasField(r, f) == f \in DOMAIN r

SetField(r, f, v) == (f :> v) @@ r

-----------------------------------------------------------------------------
(* Identifiers *)

Digits == {"0", "1", "2", "3", "4", "5", "6", "7", "8", "9"}

IsDigit(t) == t \in Digits

Contains(s, t) == \E i \in 1..Len(s) : s[i] = t

\* id.endsWith("@g.us")
EndsWithGroup(id) == Len(id) >= 2 /\ id[Len(id) - 1] = "@" /\ id[Len(id)] = "g.us"

isGroupJid(id) == id # <<>> /\ EndsWithGroup(id)

StatusJid == <<"status", "@", "broadcast">>

isStatusJid(id) == id = <<>> \/ id = StatusJid

\* Does /:\d+@/ match s from position i to position j
DeviceMatch(s, i, j) ==
    /\ s[i] = ":"
    /\ j >= i + 2
    /\ s[j] = "@"
    /\ \A k \in (i + 1)..(j - 1) : IsDigit(s[k])

\* The positions where a match of /:\d+@/ starts
DeviceStarts(s) == {i \in 1..Len(s) : \E j \in i..Len(s) : DeviceMatch(s, i, j)}

Min(S) == CHOOSE a \in S : \A b \in S : a <= b

\* s with the match that starts at position i replaced by "@"
ReplaceAt(s, i) ==
    SubSeq(s, 1, i - 1) \o <<"@">>
        \o SubSeq(s, Min({j \in i..Len(s) : DeviceMatch(s, i, j)}) + 1, Len(s))

\* raw.replace(/:\d+@/, "@"): the leftmost match only is replaced.
ReplaceDevice(s) == IF DeviceStarts(s) = {} THEN s ELSE ReplaceAt(s, Min(DeviceStarts(s)))

AllDigits(s) == Len(s) > 0 /\ \A i \in 1..Len(s) : IsDigit(s[i])

\* the default namespace is never appended
NormalizeBare(cleaned) == cleaned

Normalize(cleaned) ==
    IF Contains(cleaned, "@") THEN cleaned
    ELSE IF AllDigits(cleaned) THEN cleaned \o <<"@", "s.whatsapp.net">>
    ELSE cleaned

decodeJid(raw) == IF raw = <<>> THEN <<>> ELSE Normalize(ReplaceDevice(raw))

\* baileys' areJidsSameUser: the user parts (before ":" or "@") are equal.
UserCuts(jid) == {i \in 1..Len(jid) : jid[i] \in {":", "@"}}

UserPart(jid) == IF UserCuts(jid) = {} THEN jid ELSE SubSeq(jid, 1, Min(UserCuts(jid)) - 1)

areJidsSameUser(a, b) == UserPart(a) = UserPart(b)

\* conn.user.lid, normalized at socket.js 549-551
BotLid == <<"9", "@", "lid">>

-----------------------------------------------------------------------------
(* The store.  An operation works on a record [data, log, fetches]: data   *)
(* is the key -> entity map, log the set of keys the operation has read or *)
(* written so far, fetches the group-metadata fetches it has issued, each  *)
(* with the chatData object its completion callback has closed over,       *)
(* writes the keys it has set, in order.                                   *)

REDIS_PREFIX == <<"o3din:chat:">>
REDIS_MESSAGE_PREFIX == <<"o3din:message:">>
REDIS_CONTACT_PREFIX == <<"o3din:contact:">>
REDIS_GROUP_PREFIX == <<"o3din:group:">>

ChatKey(jid) == REDIS_PREFIX \o jid
MessageKey(chatId, messageId) == REDIS_MESSAGE_PREFIX \o chatId \o <<":", messageId>>
ContactKey(jid) == REDIS_CONTACT_PREFIX \o jid
GroupKey(jid) == REDIS_GROUP_PREFIX \o jid

Mem(data) == [data |-> data, log |-> {}, fetches |-> {}, writes |-> <<>>]

\* memoryStore.get: the entity is there or it is not (null)
Has(mem, key) == key \in DOMAIN mem.data
Get(mem, key) == mem.data[key]
Touch(mem, key) == [mem EXCEPT !.log = @ \cup {key}]

\* memoryStore.atomicSet: the whole value replaces the old one
atomicSet(mem, key, value) ==
    [mem EXCEPT !.data = (key :> value) @@ @, !.log = @ \cup {key},
                !.writes = Append(@, key)]

\* memoryStore.del
del(mem, key) ==
    [mem EXCEPT !.data = [k \in (DOMAIN @) \ {key} |-> @[k]], !.log = @ \cup {key}]

HasChat(mem, jid) == Has(mem, ChatKey(jid))
getChat(mem, jid) == Get(mem, ChatKey(jid))
setChat(mem, jid, data) == atomicSet(mem, ChatKey(jid), data)
deleteChat(mem, jid) == del(mem, ChatKey(jid))

HasMessage(mem, chatId, messageId) == Has(mem, MessageKey(chatId, messageId))
getMessage(mem, chatId, messageId) == Get(mem, MessageKey(chatId, messageId))
setMessage(mem, chatId, messageId, data) == atomicSet(mem, MessageKey(chatId, messageId), data)

setContact(mem, jid, data) == atomicSet(mem, ContactKey(jid), data)
setGroupMetadata(mem, groupId, metadata) == atomicSet(mem, GroupKey(groupId), metadata)

IsPrefix(p, k) == Len(p) <= Len(k) /\ SubSeq(k, 1, Len(p)) = p

\* memoryStore.keys(prefix + "*")
KeysWithPrefix(mem, prefix) == {k \in DOMAIN mem.data : IsPrefix(prefix, k)}

\* for (const key of keys) memoryStore.del(key)
DelAll(mem, keys) ==
    [mem EXCEPT !.data = [k \in (DOMAIN @) \ keys |-> @[k]], !.log = @ \cup keys]

-----------------------------------------------------------------------------
(* conn.pushMessage: the task queued for one message *)

\* socket.js 453-454: the quoted cache is trimmed once it exceeds 30, to 20
QuotedCap == 30
QuotedKeep == 20
\* socket.js 524-525: the message window is trimmed once it exceeds 20, to 15
WindowCap == 20
WindowKeep == 15

\* obj[id] = value on a map given by its key order: a new key goes last,
\* an existing key keeps its place.
PutKey(keys, id) == IF id \in Range(keys) THEN keys ELSE Append(keys, id)

\* a trim without the burst headroom: the cache is cut to 20 as soon as it exceeds 20
TrimQuotedAtKeep(keys) == IF Len(keys) > QuotedKeep THEN Last(keys, QuotedKeep) ELSE keys

\* a trim without hysteresis: the window is cut to 15 as soon as it exceeds 15
TrimWindowAtKeep(keys) == IF Len(keys) > WindowKeep THEN Last(keys, WindowKeep) ELSE keys

\* a trim whose loop never runs
TrimWindowOff(keys) == keys

\* a trim that deletes from the wrong end: the 20 oldest entries are kept
TrimQuotedOldest(keys) == IF Len(keys) > QuotedCap THEN SubSeq(keys, 1, QuotedKeep) ELSE keys

\* socket.js 452-457
TrimQuoted(keys) == IF Len(keys) > QuotedCap THEN Last(keys, QuotedKeep) ELSE keys

\* socket.js 523-528
TrimWindow(keys) == IF Len(keys) > WindowCap THEN Last(keys, WindowKeep) ELSE keys

MessagesOf(chat) == IF HasField(chat, "messages") THEN chat.messages ELSE <<>>

\* a || b || c on identifiers
OrJid(a, b) == IF a # <<>> THEN a ELSE b

\* a || b || "" on names
OrName(a, b) == IF a # "" THEN a ELSE b

NameOf(entity) == IF HasField(entity, "name") THEN entity.name ELSE ""

\* socket.js 398-401
PushChatRead(mem, chat) ==
    IF HasChat(mem, chat) THEN getChat(mem, chat) ELSE [id |-> chat, isChats |-> TRUE]

\* socket.js 405-414.  md is the outcome of conn.groupMetadata(chat): a
\* metadata record, or [failed |-> TRUE] when it throws.
PushMetadata(chatData, chat, md) ==
    IF isGroupJid(chat) /\ ~HasField(chatData, "metadata") /\ ~HasField(md, "failed")
    THEN SetField(SetField(chatData, "subject", md.subject), "metadata", md)
    ELSE chatData

\* socket.js 419
QuotedChat(m, chat) == decodeJid(OrJid(m.ctx.remoteJid, OrJid(m.ctx.participant, chat)))

\* socket.js 423-426
QuotedRead(mem, qChat) ==
    IF HasChat(mem, qChat) THEN getChat(mem, qChat)
    ELSE [id |-> qChat, isChats |-> ~isGroupJid(qChat)]

\* socket.js 428-460
QuotedWrite(mem, stanzaId, qChat, qm) ==
    IF stanzaId \in Range(MessagesOf(qm)) THEN mem
    ELSE setChat(mem, qChat,
             SetField(qm, "messages", TrimQuoted(Append(MessagesOf(qm), stanzaId))))

QuotedCache(mem, m, qChat) ==
    IF isStatusJid(qChat) THEN mem
    ELSE QuotedWrite(Touch(mem, ChatKey(qChat)), m.ctx.stanzaId, qChat, QuotedRead(mem, qChat))

\* socket.js 416-465: the quoted message is cached in the chat it belongs to
PushQuoted(mem, m, chat) ==
    IF m.ctx.has /\ m.ctx.stanzaId # "" THEN QuotedCache(mem, m, QuotedChat(m, chat)) ELSE mem

\* socket.js 471-476 and 492-497: the sender of a group message
GroupSender(m, chat) ==
    decodeJid(OrJid(IF m.fromMe THEN BotLid ELSE <<>>, OrJid(m.participant, chat)))

\* socket.js 491-500
PushSender(m, chat) ==
    IF isGroupJid(chat) THEN GroupSender(m, chat)
    ELSE IF m.fromMe THEN BotLid ELSE chat

\* socket.js 468-469: a private chat takes the push name itself
PushNameChat(chatData, m, chat) ==
    IF isGroupJid(chat) THEN chatData
    ELSE SetField(chatData, "name", OrName(m.pushName, NameOf(chatData)))

\* socket.js 480-482
SenderWrite(mem, m, s, sChat) ==
    setChat(mem, s, SetField(sChat, "name", OrName(m.pushName, NameOf(sChat))))

SenderName(mem, m, chat, s) ==
    IF s = <<>> \/ s = chat THEN mem
    ELSE SenderWrite(Touch(mem, ChatKey(s)), m, s,
                     IF HasChat(mem, s) THEN getChat(mem, s) ELSE [id |-> s])

\* socket.js 470-487: in a group the sender's own chat entity takes the name
PushNameSender(mem, m, chat) ==
    IF isGroupJid(chat) THEN SenderName(mem, m, chat, GroupSender(m, chat)) ELSE mem

\* socket.js 502-513: does the message go into the window
PushStores(m, chat) ==
    /\ m.mtype # "senderKeyDistributionMessage"
    /\ ~(m.fromMe \/ areJidsSameUser(PushSender(m, chat), BotLid))
    /\ m.id # ""

\* socket.js 489-530
PushWindow(chatData, m, chat) ==
    IF PushStores(m, chat)
    THEN SetField(chatData, "messages", TrimWindow(PutKey(MessagesOf(chatData), m.id)))
    ELSE chatData

\* socket.js 397-532 for the chat the message belongs to.  The chat entity is
\* read first (398) and written last (532); the quoted cache and the sender's
\* name are written in between.
PushRun(mem, m, md, chat) ==
    setChat(PushNameSender(PushQuoted(Touch(mem, ChatKey(chat)), m, chat), m, chat),
            chat,
            PushWindow(PushNameChat(PushMetadata(PushChatRead(mem, chat), chat, md), m, chat),
                       m, chat))

\* socket.js 369-535, run from its first line to its last
PushTask(mem, m, md, chat) ==
    IF m.mtype = "" \/ isStatusJid(chat) THEN mem ELSE PushRun(mem, m, md, chat)

pushMessageTask(mem, m, md) == PushTask(mem, m, md, decodeJid(m.remoteJid))

-----------------------------------------------------------------------------
(* Inputs *)

ChatQ == <<"1", "@", "s.whatsapp.net">>
ChatX == <<"2", "@", "s.whatsapp.net">>
GroupG == <<"7", "@", "g.us">>
UserP == <<"3", "@", "s.whatsapp.net">>

\* what conn.groupMetadata resolves to for GroupG
GroupMeta == [id |-> GroupG, subject |-> "S"]

\* conn.groupMetadata throws
FetchFailed == [failed |-> TRUE]

FetchOutcomes == {FetchFailed, GroupMeta}

NoCtx == [has |-> FALSE, stanzaId |-> "", remoteJid |-> <<>>, participant |-> <<>>]

Quote(stanzaId, remoteJid, participant) ==
    [has |-> TRUE, stanzaId |-> stanzaId, remoteJid |-> remoteJid, participant |-> participant]

Message(remoteJid, id, fromMe, participant, ctx) ==
    [remoteJid |-> remoteJid, id |-> id, fromMe |-> fromMe, participant |-> participant,
     pushName |-> "Al", mtype |-> IF ctx.has THEN "extendedTextMessage" ELSE "conversation",
     ctx |-> ctx]

MsgId(n) == "m" \o ToString(n)
StanzaId(n) == "q" \o ToString(n)

\* the ids MsgId(a) .. MsgId(b), in order
MsgIds(a, b) == [i \in 1..(b - a + 1) |-> MsgId(a + i - 1)]
StanzaIds(a, b) == [i \in 1..(b - a + 1) |-> StanzaId(a + i - 1)]

-----------------------------------------------------------------------------
(* SpecWindow: pushMessage tasks run one after another, each to its end     *)
(* before the next starts, against one chat (hist.chat) that starts with an *)
(* empty messages window.                                                   *)

MaxMsgs == 26
MaxQuotes == 36
MaxSwitches == 1

QueueIdle ==
    /\ tasks = <<>>
    /\ running = FALSE
    /\ drain = <<>>
    /\ status = <<>>
    /\ starts = <<>>

\* the configuration database as created on a first start: the three tables
\* exist and are empty, both row caches are empty, no row proxy is handed out
ConfigEmpty ==
    /\ sqlite = [chats |-> <<>>, settings |-> <<>>, meta |-> <<>>]
    /\ rowCaches = [chats |-> <<>>, settings |-> <<>>]
    /\ rows = <<>>

WindowInit ==
    /\ \E c \in {ChatQ, GroupG} :
        /\ hist = [chat |-> c, nMsg |-> 0, nQuote |-> 0,
                   last |-> "none", switches |-> 0]
        /\ store \in {<<>>, ChatKey(c) :> [id |-> c, isChats |-> TRUE]}
    /\ pending = {}
    /\ nEvents = 0
    /\ QueueIdle
    /\ ConfigEmpty

\* the chat's messages window as it is stored
Window(c) == IF ChatKey(c) \in DOMAIN store THEN MessagesOf(store[ChatKey(c)]) ELSE <<>>

Participant(c) == IF isGroupJid(c) THEN UserP ELSE <<>>

\* the kind of task may change only MaxSwitches times in a run
MayPush(kind) == hist.last \in {"none", kind} \/ hist.switches < MaxSwitches

Pushed(kind) ==
    [hist EXCEPT !.last = kind,
                 !.switches = IF hist.last \in {"none", kind} THEN @ ELSE @ + 1]

RunTask(m, md) == store' = pushMessageTask(Mem(store), m, md).data

\* a non-self message with a fresh id arrives in the chat
WPushNonSelf ==
    /\ hist.nMsg < MaxMsgs
    /\ MayPush("msg")
    /\ \E md \in FetchOutcomes :
        RunTask(Message(hist.chat, MsgId(hist.nMsg + 1), FALSE, Participant(hist.chat), NoCtx), md)
    /\ hist' = [Pushed("msg") EXCEPT !.nMsg = @ + 1]
    /\ UNCHANGED <<pending, nEvents>>
    /\ UNCHANGED <<queueVars, configVars>>

\* a self-sent message in another chat quotes a message of the chat that is
\* not cached yet
WPushQuoting ==
    /\ hist.nQuote < MaxQuotes
    /\ MayPush("quote")
    /\ RunTask(Message(ChatX, "c", TRUE, <<>>,
                       Quote(StanzaId(hist.nQuote + 1), hist.chat, UserP)), FetchFailed)
    /\ hist' = [Pushed("quote") EXCEPT !.nQuote = @ + 1]
    /\ UNCHANGED <<pending, nEvents>>
    /\ UNCHANGED <<queueVars, configVars>>

\* a self-sent message arrives in the chat: nothing is stored in the window
WPushSelf ==
    /\ MayPush("self")
    /\ \E md \in FetchOutcomes :
        RunTask(Message(hist.chat, "s", TRUE, <<>>, NoCtx), md)
    /\ hist' = Pushed("self")
    /\ UNCHANGED <<pending, nEvents>>
    /\ UNCHANGED <<queueVars, configVars>>

\* a non-self message arrives again under an id the window already holds
WPushRepeat ==
    /\ MayPush("repeat")
    /\ \E id \in Range(Window(hist.chat)), md \in FetchOutcomes :
        RunTask(Message(hist.chat, id, FALSE, Participant(hist.chat), NoCtx), md)
    /\ hist' = Pushed("repeat")
    /\ UNCHANGED <<pending, nEvents>>
    /\ UNCHANGED <<queueVars, configVars>>

\* a self-sent message in the chat quotes a message of the same chat
WPushQuotingSameChat ==
    /\ MayPush("samechat")
    /\ \E md \in FetchOutcomes :
        RunTask(Message(hist.chat, "c", TRUE, <<>>, Quote("q0", <<>>, <<>>)), md)
    /\ hist' = Pushed("samechat")
    /\ UNCHANGED <<pending, nEvents>>
    /\ UNCHANGED <<queueVars, configVars>>

WindowNext ==
    \/ WPushNonSelf
    \/ WPushQuoting
    \/ WPushSelf
    \/ WPushRepeat
    \/ WPushQuotingSameChat

SpecWindow == WindowInit /\ [][WindowNext]_vars

-----------------------------------------------------------------------------
(* Claims on the sliding windows (SpecWindow) *)

\* the run so far consists of n tasks of one kind only
PureRun(kind, n) ==
    /\ hist.last = kind
    /\ hist.switches = 0
    /\ (IF kind = "msg" THEN hist.nMsg ELSE hist.nQuote) = n
    /\ (IF kind = "msg" THEN hist.nQuote ELSE hist.nMsg) = 0

C3_WindowBounded ==
    /\ \A k \in DOMAIN store : Len(MessagesOf(store[k])) <= QuotedCap
    /\ hist.last \in {"msg", "repeat"} => Len(Window(hist.chat)) <= WindowCap

\* a non-self message arrives when quoted caching has filled the map to 30:
\* the 31 entries are cut to 15
C3_Witness ==
    /\ hist.last = "msg"
    /\ hist.nQuote = QuotedCap
    /\ hist.nMsg = 1
    /\ Len(Window(hist.chat)) = WindowKeep

-----------------------------------------------------------------------------
(* MessageQueue (socket.js 61-101).  A task is an async function: it is     *)
(* started by the call task(), runs on its own, and settles by fulfilling   *)
(* or by rejecting.  drain holds one record per invocation of process()     *)
(* that is scheduled by setImmediate or suspended at its await.  The        *)
(* outcome of a task lives in its promise, which is dropped when the await  *)
(* of its batch returns: from then on the task is "done".                   *)

\* socket.js 69
batchSize == 10

MaxTasks == 11
MaxRejects == 1

\* a task promise handed to Promise.all as it is, without .catch
Uncaught(outcome) == outcome

\* task().catch(...) at socket.js 95: a rejection is logged and the promise
\* handed to Promise.all fulfils
Caught(outcome) == IF outcome = "rejected" THEN "fulfilled" ELSE outcome

Settled(t) == status[t] \in {"fulfilled", "rejected"}

\* Promise.all over the batch: it rejects as soon as one of its promises
\* rejects, and fulfils when all have fulfilled
BatchRejected(batch) == \E t \in batch : Settled(t) /\ Caught(status[t]) = "rejected"
BatchFulfilled(batch) == \A t \in batch : Settled(t) /\ Caught(status[t]) = "fulfilled"

QueueInit ==
    /\ QueueIdle
    /\ ConfigEmpty
    /\ store = <<>>
    /\ pending = {}
    /\ nEvents = 0
    /\ hist = [chat |-> ChatQ, nMsg |-> 0, nQuote |-> 0, last |-> "none", switches |-> 0]

RemoveAt(s, i) == SubSeq(s, 1, i - 1) \o SubSeq(s, i + 1, Len(s))

\* add() without the `running` test: every add schedules process()
ScheduleAlways(loops, isRunning) == Append(loops, [pc |-> "scheduled", batch |-> {}])

\* add() with the test of `running` inverted
ScheduleInverted(loops, isRunning) ==
    IF isRunning THEN Append(loops, [pc |-> "scheduled", batch |-> {}]) ELSE loops

\* socket.js 79-82: process() is scheduled unless running says it already is
Schedule(loops, isRunning) ==
    IF isRunning THEN loops ELSE Append(loops, [pc |-> "scheduled", batch |-> {}])

\* socket.js 77-83: add(task)
Add ==
    /\ Len(status) < MaxTasks
    /\ tasks' = Append(tasks, Len(status) + 1)
    /\ status' = Append(status, "queued")
    /\ starts' = Append(starts, 0)
    /\ running' = TRUE
    /\ drain' = Schedule(drain, running)
    /\ UNCHANGED <<storeVars, hist, configVars>>

\* socket.js 92: this.tasks.splice(0, this.batchSize), the batch and the rest
BatchLen(queue) == IF Len(queue) < batchSize THEN Len(queue) ELSE batchSize
SpliceBatch(queue) == {queue[k] : k \in 1..BatchLen(queue)}
\* slice instead of splice: the batch stays in the queue
SliceRest(queue) == queue

SpliceRest(queue) == SubSeq(queue, BatchLen(queue) + 1, Len(queue))

\* the status of task t when `batch` is started and the batch before it dropped
Turned(t, batch) ==
    IF t \in batch THEN "started"
    ELSE IF Settled(t) THEN "done"
    ELSE status[t]

\* socket.js 91-99: one turn of the while loop of invocation i of process():
\* either a batch is spliced off and every task of it is called, or the loop
\* ends and running is reset
LoopTurn(i) ==
    /\ status' = [t \in 1..Len(status) |-> Turned(t, SpliceBatch(tasks))]
    /\ starts' = [t \in 1..Len(starts) |->
                     IF t \in SpliceBatch(tasks) THEN starts[t] + 1 ELSE starts[t]]
    /\ tasks' = SpliceRest(tasks)
    /\ IF Len(tasks) > 0
       THEN /\ drain' = [drain EXCEPT ![i] = [pc |-> "awaiting", batch |-> SpliceBatch(tasks)]]
            /\ UNCHANGED running
       ELSE /\ running' = FALSE
            /\ drain' = RemoveAt(drain, i)

\* the setImmediate callback of socket.js 81 runs
ProcessStart ==
    \E i \in 1..Len(drain) :
        /\ drain[i].pc = "scheduled"
        /\ LoopTurn(i)
    /\ UNCHANGED <<storeVars, hist, configVars>>

\* a started task settles
Settle ==
    \E t \in 1..Len(status), outcome \in {"fulfilled", "rejected"} :
        /\ status[t] = "started"
        /\ outcome = "rejected" =>
               Cardinality({u \in 1..Len(status) : status[u] = "rejected"}) < MaxRejects
        /\ status' = [status EXCEPT ![t] = outcome]
        /\ UNCHANGED <<tasks, running, drain, starts>>
    /\ UNCHANGED <<storeVars, hist, configVars>>

\* the await of socket.js 93 ends: it throws when Promise.all rejected, and
\* process() ends there, rejected; otherwise the loop takes its next turn
ProcessResume ==
    \E i \in 1..Len(drain) :
        /\ drain[i].pc = "awaiting"
        /\ IF BatchRejected(drain[i].batch)
           THEN /\ drain' = [drain EXCEPT ![i] = [pc |-> "crashed", batch |-> {}]]
                /\ UNCHANGED <<tasks, running, status, starts>>
           ELSE /\ BatchFulfilled(drain[i].batch)
                /\ LoopTurn(i)
    /\ UNCHANGED <<storeVars, hist, configVars>>

QueueNext ==
    \/ Add
    \/ ProcessStart
    \/ Settle
    \/ ProcessResume

\* The event loop runs every callback it has scheduled (setImmediate, promise
\* continuations); that a started task settles is the proviso of the claims.
SpecQueue ==
    /\ QueueInit
    /\ [][QueueNext]_vars
    /\ WF_vars(ProcessStart)
    /\ WF_vars(ProcessResume)
    /\ WF_vars(Settle)

-----------------------------------------------------------------------------
(* Claims on the MessageQueue (SpecQueue) *)

InFlight == {t \in 1..Len(status) : status[t] = "started"}
Awaiting == {i \in 1..Len(drain) : drain[i].pc = "awaiting"}

\* C8: at most one batch is in flight, at most batchSize tasks are started and
\* not settled, and every such task belongs to the one batch in flight (so no
\* task of a later batch is started while a task of an earlier one is unsettled).
C8_OneBatch ==
    /\ Cardinality(Awaiting) <= 1
    /\ Cardinality(InFlight) <= batchSize
    /\ \A t \in InFlight : \E i \in Awaiting : t \in drain[i].batch

\* a full batch is in flight while more tasks wait in the queue
C8_Witness == Cardinality(InFlight) = batchSize /\ tasks # <<>>

Waiting == {t \in 1..Len(status) : status[t] = "queued"}
Rejection == \E t \in 1..Len(status) : status[t] = "rejected"

\* C9: once a task has failed, every other task that is started runs to its
\* end and every task that waits in the queue is started and runs to its end:
\* a state follows in which no task is left waiting or running.  (Statuses
\* only advance, so this says it of each task that was waiting or running
\* when the task failed.)
C9_FailureDoesNotHalt == Rejection ~> (Waiting = {} /\ InFlight = {})

\* a task of the batch in flight has failed while another is running and
\* a third waits in the queue
C9_Witness ==
    /\ Rejection
    /\ InFlight # {}
    /\ tasks # <<>>

\* C10: every task added is eventually started, and no task is started twice.
\* A task waits from add() until process() calls it, so the first half reads:
\* whenever tasks wait, a state follows in which none waits.
C10_StartedOnce ==
    /\ (Waiting # {}) ~> (Waiting = {})
    /\ [](\A u \in 1..Len(starts) : starts[u] <= 1)

\* a task added while the first batch was in flight has been started
C10_Witness ==
    \E t, u \in 1..Len(status) :
        /\ status[t] = "done"
        /\ status[u] = "started"
        /\ starts[u] = 1

\* an invocation of process() that is scheduled or suspended at its await
Draining == {i \in 1..Len(drain) : drain[i].pc \in {"scheduled", "awaiting"}}

-----------------------------------------------------------------------------
(* The ingestion handlers (socket.js 897-1414).  A handler is a function   *)
(* from the store and the event to the store; the metadata fetches it      *)
(* issues are left in mem.fetches and complete later, on their own.        *)

FieldOr(r, f, d) == IF HasField(r, f) THEN r[f] ELSE d
Copy(from, f, into) == IF HasField(from, f) THEN SetField(into, f, from[f]) ELSE into

\* conn.getChat(id) || { id }
ChatOr(mem, id) == IF HasChat(mem, id) THEN getChat(mem, id) ELSE [id |-> id]

\* conn.groupMetadata(id).then(...) with chatData in the closure
Fetch(mem, id, chatData) ==
    [mem EXCEPT !.fetches = @ \cup {[id |-> id, chatData |-> chatData]}]

\* the fetch is issued for a group chat only
FetchIf(mem, cond, id, chatData) == IF cond THEN Fetch(mem, id, chatData) ELSE mem

\* the metadata a successful fetch of the group returns
MetadataOf(id) == [id |-> id, subject |-> "S"]

\* the .then callback of a fetch that returned metadata
FetchThen(mem, f, metadata) ==
    setChat(setGroupMetadata(mem, f.id, metadata), f.id,
            SetField(f.chatData, "metadata", metadata))

\* messaging-history.set, the chats
HistoryChatData(chat, id) ==
    Copy(chat, "muteEndTime",
         (IF isGroupJid(id) THEN [subject |-> chat.name] ELSE <<>>) @@
         [id |-> id,
          conversationTimestamp |-> chat.conversationTimestamp,
          unreadCount |-> FieldOr(chat, "unreadCount", 0),
          archived |-> FieldOr(chat, "archived", FALSE),
          pinned |-> FieldOr(chat, "pinned", 0),
          name |-> chat.name,
          isChats |-> TRUE])

\* the group's chat is written when its metadata has arrived, with it
HistoryChatAwaited(mem, id, chatData) ==
    IF isGroupJid(id)
    THEN atomicSet(setGroupMetadata(mem, id, MetadataOf(id)), ChatKey(id),
                   SetField(chatData, "metadata", MetadataOf(id)))
    ELSE atomicSet(mem, ChatKey(id), chatData)

HistoryChatStore(mem, id, chatData) ==
    FetchIf(atomicSet(mem, ChatKey(id), chatData), isGroupJid(id), id, chatData)

HistoryChatAt(mem, chat, id) ==
    IF id = <<>> \/ id = StatusJid THEN mem
    ELSE HistoryChatStore(mem, id, HistoryChatData(chat, id))

HistoryChat(mem, chat) == HistoryChatAt(mem, chat, decodeJid(chat.id))

\* messaging-history.set, the contacts
ContactName(contact) ==
    IF HasField(contact, "name") THEN [name |-> contact.name]
    ELSE IF HasField(contact, "notify") THEN [name |-> contact.notify]
    ELSE IF HasField(contact, "verifiedName") THEN [name |-> contact.verifiedName]
    ELSE <<>>

HistoryContactData(contact, id) ==
    Copy(contact, "notify", Copy(contact, "verifiedName", Copy(contact, "imgUrl",
        Copy(contact, "status", ContactName(contact) @@ [id |-> id]))))

HistoryContactAt(mem, contact, id) ==
    IF id = <<>> \/ id = StatusJid THEN mem
    ELSE setContact(mem, id, HistoryContactData(contact, id))

HistoryContact(mem, contact) == HistoryContactAt(mem, contact, decodeJid(contact.id))

\* messaging-history.set, the messages: msgs.slice(-40) of each chat
HistoryKeep == 40

LaterOfChat(messages, i) ==
    Cardinality({j \in (i + 1)..Len(messages) : messages[j].remoteJid = messages[i].remoteJid})

HistorySaved(messages, i) ==
    /\ messages[i].remoteJid # <<>>
    /\ messages[i].remoteJid # StatusJid
    /\ LaterOfChat(messages, i) < HistoryKeep
    /\ messages[i].id # ""

HistoryMessage(mem, messages, i) ==
    IF HistorySaved(messages, i)
    THEN setMessage(mem, messages[i].remoteJid, messages[i].id, messages[i])
    ELSE mem

RECURSIVE HistoryMessages(_, _, _)
HistoryMessages(mem, messages, i) ==
    IF i > Len(messages) THEN mem
    ELSE HistoryMessages(HistoryMessage(mem, messages, i), messages, i + 1)

RECURSIVE HistoryChats(_, _)
HistoryChats(mem, chats) ==
    IF chats = <<>> THEN mem
    ELSE HistoryChats(HistoryChat(mem, Head(chats)), Tail(chats))

RECURSIVE HistoryContacts(_, _)
HistoryContacts(mem, contacts) ==
    IF contacts = <<>> THEN mem
    ELSE HistoryContacts(HistoryContact(mem, Head(contacts)), Tail(contacts))

messagingHistorySet(mem, ev) ==
    HistoryMessages(HistoryContacts(HistoryChats(mem, ev.chats), ev.contacts), ev.messages, 1)

\* the unread counter goes up for a self-sent message too
UpsertChatAlways(chat, msg) ==
    [conversationTimestamp |-> msg.messageTimestamp, isChats |-> TRUE] @@
    SetField(chat, "unreadCount", FieldOr(chat, "unreadCount", 0) + 1)

\* messages.upsert
UpsertChat(chat, msg) ==
    [conversationTimestamp |-> msg.messageTimestamp, isChats |-> TRUE] @@
    (IF msg.fromMe THEN chat ELSE SetField(chat, "unreadCount", FieldOr(chat, "unreadCount", 0) + 1))

UpsertChatStore(mem, msg) ==
    setChat(mem, msg.remoteJid, UpsertChat(ChatOr(mem, msg.remoteJid), msg))

UpsertMessage(mem, msg) ==
    IF msg.remoteJid = <<>> \/ msg.id = "" \/ msg.remoteJid = StatusJid THEN mem
    ELSE UpsertChatStore(setMessage(mem, msg.remoteJid, msg.id, msg), msg)

RECURSIVE messagesUpsert(_, _)
messagesUpsert(mem, messages) ==
    IF messages = <<>> THEN mem
    ELSE messagesUpsert(UpsertMessage(mem, Head(messages)), Tail(messages))

\* an update that stores the update's fields when the message is not stored
UpdateMessageUpsert(mem, u) ==
    IF u.remoteJid = <<>> \/ u.id = "" THEN mem
    ELSE setMessage(mem, u.remoteJid, u.id,
                    IF HasMessage(mem, u.remoteJid, u.id)
                    THEN u.update @@ getMessage(mem, u.remoteJid, u.id)
                    ELSE u.update)

\* messages.update
UpdateMessage(mem, u) ==
    IF u.remoteJid = <<>> \/ u.id = "" THEN mem
    ELSE IF HasMessage(mem, u.remoteJid, u.id)
    THEN setMessage(mem, u.remoteJid, u.id, u.update @@ getMessage(mem, u.remoteJid, u.id))
    ELSE Touch(mem, MessageKey(u.remoteJid, u.id))

RECURSIVE messagesUpdate(_, _)
messagesUpdate(mem, updates) ==
    IF updates = <<>> THEN mem
    ELSE messagesUpdate(UpdateMessage(mem, Head(updates)), Tail(updates))

\* messages.delete
DeleteMessage(mem, key) ==
    IF key.remoteJid # <<>> /\ key.id # "" THEN del(mem, MessageKey(key.remoteJid, key.id))
    ELSE mem

RECURSIVE messagesDelete(_, _)
messagesDelete(mem, deletion) ==
    IF deletion = <<>> THEN mem
    ELSE messagesDelete(DeleteMessage(mem, Head(deletion)), Tail(deletion))

\* messages.reaction and message-receipt.update: msg[field].push(item)
WithPushed(msg, field, item) == SetField(msg, field, Append(FieldOr(msg, field, <<>>), item))

PushOnMessage(mem, key, field, item) ==
    IF key.remoteJid = <<>> \/ key.id = "" THEN mem
    ELSE IF HasMessage(mem, key.remoteJid, key.id)
    THEN setMessage(mem, key.remoteJid, key.id,
                    WithPushed(getMessage(mem, key.remoteJid, key.id), field, item))
    ELSE Touch(mem, MessageKey(key.remoteJid, key.id))

messagesReaction(mem, ev) == PushOnMessage(mem, ev, "reactions", ev.reaction)

ReceiptUpdate(mem, u) == PushOnMessage(mem, u, "userReceipt", u.receipt)

RECURSIVE messageReceiptUpdate(_, _)
messageReceiptUpdate(mem, updates) ==
    IF updates = <<>> THEN mem
    ELSE messageReceiptUpdate(ReceiptUpdate(mem, Head(updates)), Tail(updates))

\* chats.set
ChatSetData(chat, id) ==
    Copy(chat, "muteEndTime",
         (IF isGroupJid(id) THEN [subject |-> chat.name] ELSE [name |-> chat.name]) @@
         [id |-> id,
          conversationTimestamp |-> chat.conversationTimestamp,
          unreadCount |-> FieldOr(chat, "unreadCount", 0),
          archived |-> FieldOr(chat, "archived", FALSE),
          pinned |-> FieldOr(chat, "pinned", 0),
          isChats |-> ~FieldOr(chat, "readOnly", FALSE)])

ChatSetStore(mem, id, chatData) ==
    FetchIf(setChat(mem, id, chatData), isGroupJid(id), id, chatData)

ChatSetAt(mem, chat, id) ==
    IF id = <<>> \/ id = StatusJid THEN mem
    ELSE ChatSetStore(mem, id, ChatSetData(chat, id))

ChatSet(mem, chat) == ChatSetAt(mem, chat, decodeJid(chat.id))

RECURSIVE chatsSet(_, _)
chatsSet(mem, chats) ==
    IF chats = <<>> THEN mem
    ELSE chatsSet(ChatSet(mem, Head(chats)), Tail(chats))

\* chats.upsert: { ...existing, ...chat, isChats: true }
\* the fetch is issued for a chat the store does not have yet, and never again
ChatUpsertStoreNew(mem, id, updated) ==
    FetchIf(setChat(mem, id, updated), isGroupJid(id) /\ ~HasChat(mem, id), id, updated)

ChatUpsertStore(mem, id, updated) ==
    FetchIf(setChat(mem, id, updated),
            isGroupJid(id) /\ ~HasField(updated, "metadata"), id, updated)

ChatUpsertAt(mem, chat, id) ==
    IF id = <<>> \/ id = StatusJid THEN mem
    ELSE ChatUpsertStore(mem, id, [isChats |-> TRUE] @@ chat @@ ChatOr(mem, id))

ChatUpsert(mem, chat) == ChatUpsertAt(mem, chat, decodeJid(chat.id))

RECURSIVE chatsUpsert(_, _)
chatsUpsert(mem, chats) ==
    IF chats = <<>> THEN mem
    ELSE chatsUpsert(ChatUpsert(mem, Head(chats)), Tail(chats))

\* chats.update: { ...existing, ...update }
ChatUpdateAt(mem, update, id) ==
    IF id = <<>> \/ id = StatusJid THEN mem
    ELSE setChat(mem, id, update @@ ChatOr(mem, id))

ChatUpdate(mem, update) == ChatUpdateAt(mem, update, decodeJid(update.id))

RECURSIVE chatsUpdate(_, _)
chatsUpdate(mem, updates) ==
    IF updates = <<>> THEN mem
    ELSE chatsUpdate(ChatUpdate(mem, Head(updates)), Tail(updates))

\* chats.delete
MessagePattern(id) == REDIS_MESSAGE_PREFIX \o id \o <<":">>

\* the pattern names no chat: every message key matches
ChatDeleteAllMessages(mem, id) == DelAll(mem, KeysWithPrefix(mem, REDIS_MESSAGE_PREFIX))

ChatDeleteMessages(mem, id) == DelAll(mem, KeysWithPrefix(mem, MessagePattern(id)))

ChatDelete(mem, id) == ChatDeleteMessages(deleteChat(mem, id), id)

RECURSIVE chatsDelete(_, _)
chatsDelete(mem, deletions) ==
    IF deletions = <<>> THEN mem
    ELSE chatsDelete(ChatDelete(mem, Head(deletions)), Tail(deletions))

\* groups.upsert
GroupUpsertChat(chat, group) ==
    [subject |-> group.subject, metadata |-> group, isChats |-> TRUE] @@ chat

GroupUpsertStore(mem, group, id) ==
    setChat(mem, id, GroupUpsertChat(ChatOr(mem, id), group))

GroupUpsertAt(mem, group, id) ==
    IF id = <<>> THEN mem
    ELSE GroupUpsertStore(setGroupMetadata(mem, id, group), group, id)

GroupUpsert(mem, group) == GroupUpsertAt(mem, group, decodeJid(group.id))

RECURSIVE groupsUpsert(_, _)
groupsUpsert(mem, groups) ==
    IF groups = <<>> THEN mem
    ELSE groupsUpsert(GroupUpsert(mem, Head(groups)), Tail(groups))

\* presence.update
REDIS_PRESENCE_PREFIX == <<"o3din:presence:">>

\* `${jid}`: a null identifier reads "null" in a key
InKey(jid) == IF jid = <<>> THEN <<"null">> ELSE jid

PresenceKey(jid) == REDIS_PRESENCE_PREFIX \o InKey(jid)

setPresence(mem, jid, presence) == atomicSet(mem, PresenceKey(jid), presence)

PresenceData(jid, presence, now) ==
    Copy(presence, "lastSeen",
         [id |-> jid, lastKnownPresence |-> presence.lastKnownPresence, timestamp |-> now])

\* the chat is written whether it exists or not
PresenceChatAlways(mem, jid, presence) ==
    setChat(mem, InKey(jid), SetField(ChatOr(mem, InKey(jid)), "presences", presence.lastKnownPresence))

\* const chat = conn.getChat(_jid); if (chat) { ... }
PresenceChat(mem, jid, presence) ==
    IF HasChat(mem, InKey(jid))
    THEN setChat(mem, InKey(jid),
                 SetField(getChat(mem, InKey(jid)), "presences", presence.lastKnownPresence))
    ELSE Touch(mem, ChatKey(InKey(jid)))

PresenceAt(mem, jid, presence, now) ==
    PresenceChat(setPresence(mem, jid, PresenceData(jid, presence, now)), jid, presence)

PresenceEntry(mem, presence, now) == PresenceAt(mem, decodeJid(presence.jid), presence, now)

\* presences: the entries of the event's map, in Object.entries order
RECURSIVE presenceUpdate(_, _, _)
presenceUpdate(mem, presences, now) ==
    IF presences = <<>> THEN mem
    ELSE presenceUpdate(PresenceEntry(mem, Head(presences), now), Tail(presences), now)

-----------------------------------------------------------------------------
(* Inputs of the handlers *)

\* the identifier with the device suffix ":5" before its "@"
WithDevice(jid) == UserPart(jid) \o <<":", "5">> \o SubSeq(jid, Len(UserPart(jid)) + 1, Len(jid))

JidPool == {ChatQ, WithDevice(ChatQ), GroupG}

WAMessage(remoteJid, id, fromMe) ==
    [remoteJid |-> remoteJid, id |-> id, fromMe |-> fromMe, messageTimestamp |-> 5]

MessageKeyOf(remoteJid, id) == [remoteJid |-> remoteJid, id |-> id]

StatusUpdate(remoteJid, id) == [remoteJid |-> remoteJid, id |-> id, update |-> [status |-> 3]]

Reaction(remoteJid, id) == [remoteJid |-> remoteJid, id |-> id, reaction |-> "like"]

Receipt(remoteJid, id) == [remoteJid |-> remoteJid, id |-> id, receipt |-> "read"]

WAChat(id) == [id |-> id, name |-> "N", conversationTimestamp |-> 2, unreadCount |-> 0]

Archived(id) == [id |-> id, archived |-> TRUE]

WAContact(id) == [id |-> id, notify |-> "Al"]

History(id, messages) ==
    [chats |-> <<WAChat(id)>>, contacts |-> <<WAContact(UserP)>>, messages |-> messages]

\* the events of each type that refer to the chat j
Upserts(j) == {<<WAMessage(j, "m1", f)>> : f \in BOOLEAN}
Updates(j) == {<<StatusUpdate(j, "m1")>>}
Deletes(j) == {<<MessageKeyOf(j, "m1")>>}
Reactions(j) == {Reaction(j, "m1")}
Receipts(j) == {<<Receipt(j, "m1")>>}
ChatSets(j) == {<<WAChat(j)>>}
ChatUpserts(j) == {<<WAChat(j)>>}
ChatUpdates(j) == {<<Archived(j)>>}
ChatDeletes(j) == {<<j>>}
GroupUpserts(j) == {<<MetadataOf(j)>>}
Histories(j) == {History(j, <<>>), History(j, <<WAMessage(j, "m1", FALSE), WAMessage(ChatX, "m2", FALSE)>>)}
Presence(jid) == [jid |-> jid, lastKnownPresence |-> "available"]
PresenceUpdates(j) ==
    {[id |-> j, presences |-> <<Presence(j)>>],
     [id |-> j, presences |-> <<Presence(j), Presence(UserP)>>]}
Pushes(j) == {Message(j, "m1", f, Participant(j), NoCtx) : f \in BOOLEAN}

-----------------------------------------------------------------------------
(* SpecStore: the transport emits events one at a time; each handler runs  *)
(* to its end; a metadata fetch that a handler has issued completes at any *)
(* later time, with the group's metadata or with a failure.  A pushMessage *)
(* task is run here in one step.                                           *)

MaxEvents == 2

\* memoryStore.enqueueEvent(name, payload, priority): the tier each handler
\* passes
EventPriority ==
    [kind \in {"connection.update", "creds.update", "messaging-history.set",
               "messages.upsert", "messages.update", "messages.delete",
               "chats.set", "chats.upsert", "contacts.set", "contacts.upsert",
               "groups.upsert", "groups.update", "group-participants.update",
               "call", "blocklist.set", "blocklist.update"} |-> "CORE"] @@
    [kind \in {"messages.reaction", "message-receipt.update", "chats.update",
               "presence.update", "contacts.update"} |-> "AUX"] @@
    [kind \in {"chats.delete"} |-> "NOISE"]

\* a rejection nobody handles ends the process
FetchUncaught(outcome) == outcome

\* .catch(() => {}) on the fetch's promise
FetchCaught(outcome) == IF outcome = "rejected" THEN "fulfilled" ELSE outcome

\* hist holds the last step: its kind, the tier it was enqueued under, its
\* payload, the store before it and the keys it wrote; and the groups whose
\* fetch has failed, and whether an error has left a handler or a callback
StoreInit ==
    /\ store = <<>>
    /\ pending = {}
    /\ nEvents = 0
    /\ hist = [kind |-> "none", tier |-> "none", ev |-> <<>>, before |-> <<>>,
               writes |-> <<>>, failed |-> {}, crashed |-> FALSE]
    /\ QueueIdle
    /\ ConfigEmpty

\* the transport emits one more event
Emits == nEvents < MaxEvents /\ ~hist.crashed

\* the step's record in hist
Step(kind, tier, ev, mem) ==
    [hist EXCEPT !.kind = kind, !.tier = tier, !.ev = ev, !.before = store,
                 !.writes = mem.writes]

\* the handler has run: the event is enqueued under its tier, the handler's
\* writes are in the store, its fetches in flight
Handled(kind, ev, mem) ==
    /\ store' = mem.data
    /\ pending' = pending \cup mem.fetches
    /\ nEvents' = nEvents + 1
    /\ hist' = Step(kind, EventPriority[kind], ev, mem)
    /\ UNCHANGED <<queueVars, configVars>>

OnMessagingHistorySet ==
    /\ Emits
    /\ \E j \in JidPool \cup {StatusJid} : \E ev \in Histories(j) :
        Handled("messaging-history.set", ev,
                messagingHistorySet(Mem(store), ev))

OnMessagesUpsert ==
    /\ Emits
    /\ \E j \in JidPool \cup {StatusJid} : \E ev \in Upserts(j) :
        Handled("messages.upsert", ev,
                messagesUpsert(Mem(store), ev))

OnMessagesUpdate ==
    /\ Emits
    /\ \E j \in JidPool : \E ev \in Updates(j) :
        Handled("messages.update", ev,
                messagesUpdate(Mem(store), ev))

OnMessagesDelete ==
    /\ Emits
    /\ \E j \in JidPool : \E ev \in Deletes(j) :
        Handled("messages.delete", ev,
                messagesDelete(Mem(store), ev))

OnMessagesReaction ==
    /\ Emits
    /\ \E j \in JidPool : \E ev \in Reactions(j) :
        Handled("messages.reaction", ev,
                messagesReaction(Mem(store), ev))

OnMessageReceiptUpdate ==
    /\ Emits
    /\ \E j \in JidPool : \E ev \in Receipts(j) :
        Handled("message-receipt.update", ev,
                messageReceiptUpdate(Mem(store), ev))

OnChatsSet ==
    /\ Emits
    /\ \E j \in JidPool \cup {StatusJid} : \E ev \in ChatSets(j) :
        Handled("chats.set", ev,
                chatsSet(Mem(store), ev))

OnChatsUpsert ==
    /\ Emits
    /\ \E j \in JidPool : \E ev \in ChatUpserts(j) :
        Handled("chats.upsert", ev,
                chatsUpsert(Mem(store), ev))

OnChatsUpdate ==
    /\ Emits
    /\ \E j \in JidPool : \E ev \in ChatUpdates(j) :
        Handled("chats.update", ev,
                chatsUpdate(Mem(store), ev))

OnChatsDelete ==
    /\ Emits
    /\ \E j \in JidPool : \E ev \in ChatDeletes(j) :
        Handled("chats.delete", ev,
                chatsDelete(Mem(store), ev))

OnGroupsUpsert ==
    /\ Emits
    /\ \E ev \in GroupUpserts(GroupG) \cup GroupUpserts(WithDevice(GroupG)) :
        Handled("groups.upsert", ev,
                groupsUpsert(Mem(store), ev))

\* Date.now() in the handler of the next event
Now == 1000 + nEvents

OnPresenceUpdate ==
    /\ Emits
    /\ \E j \in JidPool : \E ev \in PresenceUpdates(j) :
        Handled("presence.update", ev, presenceUpdate(Mem(store), ev.presences, Now))

\* a pushMessage task: it is no transport event and enqueues nothing
OnPushMessage ==
    /\ Emits
    /\ \E j \in JidPool : \E m \in Pushes(j) : \E md \in {FetchFailed, MetadataOf(decodeJid(j))} :
        /\ store' = pushMessageTask(Mem(store), m, md).data
        /\ nEvents' = nEvents + 1
        /\ hist' = Step("pushMessage", "none", [m |-> m, md |-> md],
                        pushMessageTask(Mem(store), m, md))
        /\ UNCHANGED <<pending, queueVars, configVars>>

\* a fetch in flight returns the group's metadata
FetchSucceeds ==
    \E f \in pending :
        /\ store' = FetchThen(Mem(store), f, MetadataOf(f.id)).data
        /\ pending' = pending \ {f}
        /\ hist' = Step("fetch.then", "none", f, FetchThen(Mem(store), f, MetadataOf(f.id)))
        /\ UNCHANGED <<nEvents, queueVars, configVars>>

\* a fetch in flight rejects
FetchFails ==
    \E f \in pending :
        /\ pending' = pending \ {f}
        /\ hist' = [Step("fetch.catch", "none", f, Mem(store)) EXCEPT
                        !.failed = @ \cup {f.id},
                        !.crashed = (FetchCaught("rejected") = "rejected")]
        /\ UNCHANGED <<store, nEvents, queueVars, configVars>>

StoreNext ==
    \/ OnMessagingHistorySet
    \/ OnMessagesUpsert
    \/ OnMessagesUpdate
    \/ OnMessagesDelete
    \/ OnMessagesReaction
    \/ OnMessageReceiptUpdate
    \/ OnChatsSet
    \/ OnChatsUpsert
    \/ OnChatsUpdate
    \/ OnChatsDelete
    \/ OnGroupsUpsert
    \/ OnPresenceUpdate
    \/ OnPushMessage
    \/ FetchSucceeds
    \/ FetchFails

SpecStore == StoreInit /\ [][StoreNext]_vars

-----------------------------------------------------------------------------
(* Claims on the ingestion handlers (SpecStore) *)

\* the identifiers without a device suffix that events refer to
PlainJids == {ChatQ, GroupG}

SameKeys(a, b) == a.log = b.log

\* C4: for every ingestion handler and for pushMessage, two events that
\* refer to the same chat and differ only in the ":<device-id>" suffix of
\* the identifier read and write the same store keys.
C4_SameKeys ==
    \A j \in PlainJids :
        /\ \A f \in BOOLEAN :
            /\ SameKeys(messagesUpsert(Mem(store), <<WAMessage(j, "m1", f)>>),
                        messagesUpsert(Mem(store), <<WAMessage(WithDevice(j), "m1", f)>>))
            /\ SameKeys(pushMessageTask(Mem(store), Message(j, "m1", f, Participant(j), NoCtx), FetchFailed),
                        pushMessageTask(Mem(store), Message(WithDevice(j), "m1", f, Participant(j), NoCtx), FetchFailed))
        /\ SameKeys(messagesUpdate(Mem(store), <<StatusUpdate(j, "m1")>>),
                    messagesUpdate(Mem(store), <<StatusUpdate(WithDevice(j), "m1")>>))
        /\ SameKeys(messagesDelete(Mem(store), <<MessageKeyOf(j, "m1")>>),
                    messagesDelete(Mem(store), <<MessageKeyOf(WithDevice(j), "m1")>>))
        /\ SameKeys(messagesReaction(Mem(store), Reaction(j, "m1")),
                    messagesReaction(Mem(store), Reaction(WithDevice(j), "m1")))
        /\ SameKeys(messageReceiptUpdate(Mem(store), <<Receipt(j, "m1")>>),
                    messageReceiptUpdate(Mem(store), <<Receipt(WithDevice(j), "m1")>>))
        /\ SameKeys(chatsSet(Mem(store), <<WAChat(j)>>),
                    chatsSet(Mem(store), <<WAChat(WithDevice(j))>>))
        /\ SameKeys(chatsUpsert(Mem(store), <<WAChat(j)>>),
                    chatsUpsert(Mem(store), <<WAChat(WithDevice(j))>>))
        /\ SameKeys(chatsUpdate(Mem(store), <<Archived(j)>>),
                    chatsUpdate(Mem(store), <<Archived(WithDevice(j))>>))
        /\ SameKeys(chatsDelete(Mem(store), <<j>>),
                    chatsDelete(Mem(store), <<WithDevice(j)>>))
        /\ SameKeys(groupsUpsert(Mem(store), <<MetadataOf(j)>>),
                    groupsUpsert(Mem(store), <<MetadataOf(WithDevice(j))>>))
        /\ SameKeys(messagingHistorySet(Mem(store), History(j, <<WAMessage(j, "m1", FALSE)>>)),
                    messagingHistorySet(Mem(store), History(WithDevice(j), <<WAMessage(WithDevice(j), "m1", FALSE)>>)))

\* the chat keys of the store, and the identifier each is made of
ChatKeys == {k \in DOMAIN store : IsPrefix(REDIS_PREFIX, k)}
JidOfKey(k) == SubSeq(k, Len(REDIS_PREFIX) + 1, Len(k))

\* C5: every chat entity stored under key o3din:chat:<k> has an id field
\* equal to k, and k is a canonical identifier (decodeJid(k) = k).
C5_ChatIdIsKey ==
    \A k \in ChatKeys :
        /\ HasField(store[k], "id")
        /\ store[k].id = JidOfKey(k)
        /\ decodeJid(JidOfKey(k)) = JidOfKey(k)

Twice(once, again) == again.data = once.data

\* C6: every ingestion handler is idempotent with respect to replays:
\* applying the same event twice in a row yields the same store state as
\* applying it once.
C6_ReplayIdempotent ==
    \A j \in JidPool :
        /\ \A ev \in Upserts(j) :
            Twice(messagesUpsert(Mem(store), ev), messagesUpsert(messagesUpsert(Mem(store), ev), ev))
        /\ \A ev \in Updates(j) :
            Twice(messagesUpdate(Mem(store), ev), messagesUpdate(messagesUpdate(Mem(store), ev), ev))
        /\ \A ev \in Deletes(j) :
            Twice(messagesDelete(Mem(store), ev), messagesDelete(messagesDelete(Mem(store), ev), ev))
        /\ \A ev \in Reactions(j) :
            Twice(messagesReaction(Mem(store), ev), messagesReaction(messagesReaction(Mem(store), ev), ev))
        /\ \A ev \in Receipts(j) :
            Twice(messageReceiptUpdate(Mem(store), ev),
                  messageReceiptUpdate(messageReceiptUpdate(Mem(store), ev), ev))
        /\ \A ev \in ChatSets(j) :
            Twice(chatsSet(Mem(store), ev), chatsSet(chatsSet(Mem(store), ev), ev))
        /\ \A ev \in ChatUpserts(j) :
            Twice(chatsUpsert(Mem(store), ev), chatsUpsert(chatsUpsert(Mem(store), ev), ev))
        /\ \A ev \in ChatUpdates(j) :
            Twice(chatsUpdate(Mem(store), ev), chatsUpdate(chatsUpdate(Mem(store), ev), ev))
        /\ \A ev \in ChatDeletes(j) :
            Twice(chatsDelete(Mem(store), ev), chatsDelete(chatsDelete(Mem(store), ev), ev))
        /\ \A ev \in GroupUpserts(j) :
            Twice(groupsUpsert(Mem(store), ev), groupsUpsert(groupsUpsert(Mem(store), ev), ev))
        /\ \A ev \in Histories(j) :
            Twice(messagingHistorySet(Mem(store), ev),
                  messagingHistorySet(messagingHistorySet(Mem(store), ev), ev))

\* the fetch f completes in this step
Completes(f) == f \in pending /\ pending' = pending \ {f}

\* the step keeps every field of the chat but metadata and subject
KeepsFields(k) ==
    \A field \in (DOMAIN store[k]) \ {"metadata", "subject"} :
        /\ field \in DOMAIN store'[k]
        /\ store'[k][field] = store[k][field]

\* C7: when a group-metadata fetch succeeds, its result is merged into the
\* chat entity as it is at completion time: every field written to that
\* chat between the issue of the fetch and its completion is preserved,
\* and only metadata (and subject) are added.
C7_MergedAtCompletion ==
    [][\A f \in pending :
          (Completes(f) /\ ChatKey(f.id) \in DOMAIN store /\ ChatKey(f.id) \in DOMAIN store')
              => KeepsFields(ChatKey(f.id))]_vars

\* the handlers that address messages by their key
MessageKinds ==
    {"messages.update", "messages.delete", "messages.reaction", "message-receipt.update"}

\* the store keys of the messages the last event addresses
Addressed ==
    IF hist.kind = "messages.reaction"
    THEN {MessageKey(hist.ev.remoteJid, hist.ev.id)}
    ELSE {MessageKey(hist.ev[i].remoteJid, hist.ev[i].id) : i \in 1..Len(hist.ev)}

\* the key is set or unset as before the last step, to the same entity
Untouched(k) ==
    /\ k \in DOMAIN store <=> k \in DOMAIN hist.before
    /\ k \in DOMAIN store => store[k] = hist.before[k]

\* C31: messages.update, messages.reaction, message-receipt.update and
\* messages.delete change only the addressed message key: every other store
\* key, the parent chat entity included, is as before the handler, and update,
\* reaction and receipt for a message that is not stored create no entity.
C31_SingleKey ==
    hist.kind \in MessageKinds =>
        /\ \A k \in (DOMAIN store \cup DOMAIN hist.before) \ Addressed : Untouched(k)
        /\ hist.kind # "messages.delete" =>
               \A k \in Addressed \ DOMAIN hist.before : k \notin DOMAIN store

\* a stored message of a stored chat has been updated
C31_Witness ==
    /\ hist.kind = "messages.update"
    /\ \E k \in Addressed :
        /\ k \in DOMAIN hist.before
        /\ k \in DOMAIN store
        /\ store[k] # hist.before[k]
    /\ ChatKey(hist.ev[1].remoteJid) \in DOMAIN store

-----------------------------------------------------------------------------
(* SpecJid: decodeJid applied to a raw identifier, and once more to its    *)
(* result.  hist holds the input, the two results and the number of calls. *)

JidTokens == {"1", "2", ":", "@", "s.whatsapp.net"}

MaxJidLen == 5

JidInputs == UNION {[1..n -> JidTokens] : n \in 0..MaxJidLen}

JidInit ==
    /\ \E raw \in JidInputs :
        hist = [raw |-> raw, once |-> <<>>, twice |-> <<>>, calls |-> 0]
    /\ store = <<>>
    /\ pending = {}
    /\ nEvents = 0
    /\ QueueIdle
    /\ ConfigEmpty

JidDecode ==
    /\ hist.calls = 0
    /\ hist' = [hist EXCEPT !.once = decodeJid(hist.raw), !.calls = 1]
    /\ UNCHANGED <<storeVars, queueVars, configVars>>

JidDecodeAgain ==
    /\ hist.calls = 1
    /\ hist' = [hist EXCEPT !.twice = decodeJid(hist.once), !.calls = 2]
    /\ UNCHANGED <<storeVars, queueVars, configVars>>

JidNext == JidDecode \/ JidDecodeAgain

SpecJid == JidInit /\ [][JidNext]_vars

-----------------------------------------------------------------------------
(* Claims on decodeJid (SpecJid) *)

\* the last position of the part of x before its namespace
UserEnd(x) == IF Contains(x, "@") THEN Min({i \in 1..Len(x) : x[i] = "@"}) - 1 ELSE Len(x)

\* where the trailing ":<n>" of that part starts, if it has one after a user
SuffixStarts(x) ==
    {i \in 2..(UserEnd(x) - 1) : x[i] = ":" /\ \A k \in (i + 1)..UserEnd(x) : IsDigit(x[k])}

HasDeviceSuffix(x) == SuffixStarts(x) # {}

\* x without its trailing ":<n>"
StripSuffix(x) == SubSeq(x, 1, Min(SuffixStarts(x)) - 1) \o SubSeq(x, UserEnd(x) + 1, Len(x))

\* C19: for every identifier x that ends in a ":<n>" device suffix (with or
\* without a namespace suffix after it), decodeJid(x) equals decodeJid of x
\* with that device suffix removed.
C19_SuffixStripped ==
    (hist.calls >= 1 /\ HasDeviceSuffix(hist.raw))
        => hist.once = decodeJid(StripSuffix(hist.raw))

DefaultSuffix == <<"@", "s.whatsapp.net">>

EndsInDefault(x) == Len(x) >= 2 /\ SubSeq(x, Len(x) - 1, Len(x)) = DefaultSuffix

\* C20: for every purely numeric identifier x, decodeJid(x) ends in the
\* default namespace suffix, and decodeJid(decodeJid(x)) = decodeJid(x).
C20_NumericDefault ==
    AllDigits(hist.raw) =>
        /\ hist.calls >= 1 => EndsInDefault(hist.once)
        /\ hist.calls = 2 => hist.twice = hist.once

C20_Witness == AllDigits(hist.raw) /\ Len(hist.raw) = 2 /\ hist.calls = 2

\* C40: decodeJid is idempotent on every string, also on strings that hold
\* more than one ":<digits>" segment: decodeJid(decodeJid(x)) = decodeJid(x).
C40_Idempotent == hist.calls = 2 => hist.twice = hist.once

-----------------------------------------------------------------------------
(* The blocklist (socket.js 841-855, 1518-1559): one entity, the array of  *)
(* blocked identifiers, a sequence here.                                   *)

REDIS_BLOCKLIST_PREFIX == <<"o3din:blocklist:">>

BlocklistKey == REDIS_BLOCKLIST_PREFIX \o <<"list">>

\* memoryStore.get(key) || []
getBlocklist(mem) == IF Has(mem, BlocklistKey) THEN Get(mem, BlocklistKey) ELSE <<>>

setBlocklist(mem, blocklist) == atomicSet(mem, BlocklistKey, blocklist)

\* blocklist.set
blocklistSet(mem, ev) == setBlocklist(mem, ev.blocklist)

includes(list, jid) == \E i \in 1..Len(list) : list[i] = jid

\* existing.push(jid), whether existing has it or not
BlockPushAlways(existing, jid) == Append(existing, jid)

\* if (!existing.includes(jid)) existing.push(jid)
BlockPush(existing, jid) == IF includes(existing, jid) THEN existing ELSE Append(existing, jid)

RECURSIVE BlockAdd(_, _)
BlockAdd(existing, blocklist) ==
    IF blocklist = <<>> THEN existing
    ELSE BlockAdd(BlockPush(existing, Head(blocklist)), Tail(blocklist))

\* the filter keeps the identifiers of the event instead of dropping them
BlockRemoveKept(existing, blocklist) ==
    LET Listed(jid) == includes(blocklist, jid) IN SelectSeq(existing, Listed)

\* existing.filter((jid) => !blocklist.includes(jid))
BlockRemove(existing, blocklist) ==
    LET Kept(jid) == ~includes(blocklist, jid) IN SelectSeq(existing, Kept)

BlockUpdated(existing, ev) ==
    IF ev.type = "add" THEN BlockAdd(existing, ev.blocklist)
    ELSE IF ev.type = "remove" THEN BlockRemove(existing, ev.blocklist)
    ELSE existing

\* blocklist.update
blocklistUpdate(mem, ev) ==
    setBlocklist(Touch(mem, BlocklistKey), BlockUpdated(getBlocklist(mem), ev))

-----------------------------------------------------------------------------
(* SpecBlocklist: blocklist.set and blocklist.update events on an account  *)
(* whose block list is known or not yet synced.  blocklist.set carries the *)
(* account's block list, in which no identifier occurs twice.  hist holds   *)
(* the last two events and the store before each.                          *)

BlockPool == {ChatQ, ChatX, UserP}

\* the identifiers the update events name
UpdatePool == {ChatQ, ChatX}

MaxBlock == 2
MaxBlockEvents == 2

\* the sequences over the pool, up to the length n
BlockLists(pool, n) == UNION {[1..m -> pool] : m \in 0..n}

NoDuplicate(list) == \A i, k \in 1..Len(list) : list[i] = list[k] => i = k

\* the block lists an account can have
SyncedLists == {list \in BlockLists(BlockPool, Cardinality(BlockPool)) : NoDuplicate(list)}

BlockUpdates == {[type |-> t, blocklist |-> list] : t \in {"add", "remove"}, list \in BlockLists(UpdatePool, MaxBlock)}

BlockSets == {[type |-> "set", blocklist |-> list] : list \in SyncedLists}

NoEvent == [type |-> "none", blocklist |-> <<>>]

BlocklistInit ==
    /\ store \in {<<>>} \cup {BlocklistKey :> list : list \in SyncedLists}
    /\ hist = [ev |-> NoEvent, before |-> <<>>, prevEv |-> NoEvent, prevBefore |-> <<>>]
    /\ pending = {}
    /\ nEvents = 0
    /\ QueueIdle
    /\ ConfigEmpty

BlockHandled(ev, mem) ==
    /\ store' = mem.data
    /\ hist' = [ev |-> ev, before |-> store, prevEv |-> hist.ev, prevBefore |-> hist.before]
    /\ nEvents' = nEvents + 1
    /\ UNCHANGED <<pending, queueVars, configVars>>

OnBlocklistSet ==
    /\ nEvents < MaxBlockEvents
    /\ \E ev \in BlockSets : BlockHandled(ev, blocklistSet(Mem(store), ev))

OnBlocklistUpdate ==
    /\ nEvents < MaxBlockEvents
    /\ \E ev \in BlockUpdates : BlockHandled(ev, blocklistUpdate(Mem(store), ev))

BlocklistNext == OnBlocklistSet \/ OnBlocklistUpdate

SpecBlocklist == BlocklistInit /\ [][BlocklistNext]_vars

-----------------------------------------------------------------------------
(* Claims on the blocklist (SpecBlocklist) *)

Blocked(data) == getBlocklist(Mem(data))

Members(list) == {list[i] : i \in 1..Len(list)}

Occurrences(list, jid) == Cardinality({i \in 1..Len(list) : list[i] = jid})

\* the last two events were update(add, [a, b]) and then update(remove, [a])
AddThenRemove(a, b) ==
    /\ hist.prevEv = [type |-> "add", blocklist |-> <<a, b>>]
    /\ hist.ev = [type |-> "remove", blocklist |-> <<a>>]

\* C11: for every prior blocklist whose members are a subset of {A, B},
\* blocklist.update(add, [A, B]) and then blocklist.update(remove, [A])
\* make getBlocklist() return exactly [B].
C11_AddRemoveGet ==
    \A a, b \in UpdatePool :
        (a # b /\ AddThenRemove(a, b) /\ Members(Blocked(hist.prevBefore)) \subseteq {a, b})
            => Blocked(store) = <<b>>

C11_Witness ==
    /\ AddThenRemove(ChatQ, ChatX)
    /\ Blocked(hist.prevBefore) = <<ChatX, ChatQ>>
    /\ Blocked(store) = <<ChatX>>

\* C12: applying the same blocklist.update event twice yields the same
\* stored blocklist as applying it once, an add never introduces a
\* duplicate identifier, and after a remove none of the removed identifiers
\* is a member.
C12_MembershipIdempotent ==
    /\ (hist.ev.type \in {"add", "remove"} /\ hist.prevEv = hist.ev)
            => Blocked(store) = Blocked(hist.before)
    /\ hist.ev.type = "add" =>
            \A jid \in BlockPool :
                /\ Occurrences(Blocked(store), jid) >= Occurrences(Blocked(hist.before), jid)
                /\ Occurrences(Blocked(store), jid) > Occurrences(Blocked(hist.before), jid)
                        => Occurrences(Blocked(store), jid) = 1
    /\ hist.ev.type = "remove" => Members(Blocked(store)) \cap Members(hist.ev.blocklist) = {}

C12_Witness ==
    /\ hist.ev = [type |-> "add", blocklist |-> <<ChatX, ChatX>>]
    /\ hist.prevEv = hist.ev
    /\ Blocked(hist.prevBefore) = <<ChatQ>>
    /\ Blocked(store) = <<ChatQ, ChatX>>

-----------------------------------------------------------------------------
(* Claims on single handlers (SpecStore), stated on the step just taken *)

Unread(data, c) ==
    IF ChatKey(c) \in DOMAIN data THEN FieldOr(data[ChatKey(c)], "unreadCount", 0) ELSE 0

\* the message the last step has processed, if the step was messages.upsert
\* of a message the handler does not skip
Upserted(msg) ==
    /\ hist.kind = "messages.upsert"
    /\ hist.ev = <<msg>>
    /\ msg.remoteJid # StatusJid

UpsertPool == UNION {Upserts(j) : j \in JidPool \cup {StatusJid}}

\* C13: after messages.upsert processes a message with chat c and id i (c
\* not the status broadcast), getMessage(c, i) returns that message, the
\* chat of c has conversationTimestamp equal to the message's timestamp,
\* and the chat's unreadCount has increased by exactly 1 if the message is
\* not self-sent and is unchanged if it is self-sent.
C13_UpsertStores ==
    \A ev \in UpsertPool :
        Upserted(ev[1]) =>
            /\ HasMessage(Mem(store), ev[1].remoteJid, ev[1].id)
            /\ getMessage(Mem(store), ev[1].remoteJid, ev[1].id) = ev[1]
            /\ HasChat(Mem(store), ev[1].remoteJid)
            /\ getChat(Mem(store), ev[1].remoteJid).conversationTimestamp = ev[1].messageTimestamp
            /\ Unread(store, ev[1].remoteJid) =
                    Unread(hist.before, ev[1].remoteJid) + (IF ev[1].fromMe THEN 0 ELSE 1)

\* a self-sent message has arrived in a chat that has unread messages
C13_Witness ==
    /\ Upserted(WAMessage(ChatQ, "m1", TRUE))
    /\ Unread(hist.before, ChatQ) = 1
    /\ Unread(store, ChatQ) = 1

\* the keys of the chat c: its entity and its messages
OfChat(c, k) == k = ChatKey(c) \/ IsPrefix(MessagePattern(c), k)

\* C14: after chats.delete for chat id c, the chat entity of c is absent and
\* no message key under c's chat prefix remains in the store, while the
\* chat entities and message keys of every other chat are unchanged.
C14_DeleteFrame ==
    \A c \in JidPool :
        (hist.kind = "chats.delete" /\ hist.ev = <<c>>) =>
            /\ \A k \in DOMAIN store : ~OfChat(c, k)
            /\ DOMAIN store = {k \in DOMAIN hist.before : ~OfChat(c, k)}
            /\ \A k \in DOMAIN store : store[k] = hist.before[k]

\* a chat with a stored message is deleted, another chat's message stays
C14_Witness ==
    /\ hist.kind = "chats.delete"
    /\ hist.ev = <<ChatQ>>
    /\ {ChatKey(ChatQ), MessageKey(ChatQ, "m1"), MessageKey(ChatX, "m2")} \subseteq DOMAIN hist.before
    /\ MessageKey(ChatX, "m2") \in DOMAIN store
    /\ MessageKey(ChatQ, "m1") \notin DOMAIN store

ChatKeysOf(data) == {k \in DOMAIN data : IsPrefix(REDIS_PREFIX, k)}

PresenceKeysOf(presences) == {PresenceKey(decodeJid(presences[i].jid)) : i \in 1..Len(presences)}

Written(writes, key) == Cardinality({i \in 1..Len(writes) : writes[i] = key})

\* C15: presence.update never creates a chat entity: the set of chat keys
\* after the handler equals the set before it; an existing chat only gains
\* the presences field, and each participant's presence entity is written
\* once.
C15_PresenceFrame ==
    hist.kind = "presence.update" =>
        /\ ChatKeysOf(store) = ChatKeysOf(hist.before)
        /\ \A k \in ChatKeysOf(store) :
            /\ DOMAIN store[k] \subseteq DOMAIN hist.before[k] \cup {"presences"}
            /\ \A f \in (DOMAIN hist.before[k]) \ {"presences"} :
                f \in DOMAIN store[k] /\ store[k][f] = hist.before[k][f]
        /\ \A k \in PresenceKeysOf(hist.ev.presences) :
            k \in DOMAIN store /\ Written(hist.writes, k) = 1
        /\ \A i \in 1..Len(hist.writes) :
            hist.writes[i] \in PresenceKeysOf(hist.ev.presences) \cup ChatKeysOf(hist.before)

\* two participants, one with a chat and one without
C15_Witness ==
    /\ hist.kind = "presence.update"
    /\ Len(hist.ev.presences) = 2
    /\ ChatKeysOf(store) = {ChatKey(ChatQ)}
    /\ ~HasField(hist.before[ChatKey(ChatQ)], "presences")
    /\ HasField(store[ChatKey(ChatQ)], "presences")
    /\ PresenceKey(UserP) \in DOMAIN store

HistoryPool == UNION {Histories(j) : j \in JidPool \cup {StatusJid}}

Kept(id) == id # <<>> /\ id # StatusJid

\* the chat of the event is stored as the event describes it, without
\* metadata
Projected(chat, id) ==
    /\ ChatKey(id) \in DOMAIN store
    /\ store[ChatKey(id)].id = id
    /\ store[ChatKey(id)].conversationTimestamp = chat.conversationTimestamp
    /\ store[ChatKey(id)].unreadCount = chat.unreadCount
    /\ store[ChatKey(id)].archived = FALSE
    /\ store[ChatKey(id)].pinned = 0
    /\ store[ChatKey(id)].name = chat.name
    /\ ~HasField(store[ChatKey(id)], "metadata")

\* the group's fetch is in flight, and the group's metadata is not stored by it
InFlightFor(id) == \E f \in pending : f.id = id

\* C16: in messaging-history.set, the minimal projection of every chat of
\* the event is written to the store before any group-metadata result is
\* merged, and the handler finishes its bulk write of chats, contacts and
\* messages even if no group-metadata fetch ever completes.
C16_BulkWriteFirst ==
    \A ev \in HistoryPool :
        (hist.kind = "messaging-history.set" /\ hist.ev = ev) =>
            /\ \A i \in 1..Len(ev.chats) :
                Kept(decodeJid(ev.chats[i].id)) =>
                    /\ Projected(ev.chats[i], decodeJid(ev.chats[i].id))
                    /\ isGroupJid(decodeJid(ev.chats[i].id)) => InFlightFor(decodeJid(ev.chats[i].id))
            /\ \A i \in 1..Len(ev.contacts) :
                Kept(decodeJid(ev.contacts[i].id)) =>
                    ContactKey(decodeJid(ev.contacts[i].id)) \in DOMAIN store
            /\ \A i \in 1..Len(ev.messages) :
                Kept(ev.messages[i].remoteJid) =>
                    /\ MessageKey(ev.messages[i].remoteJid, ev.messages[i].id) \in DOMAIN store
                    /\ store[MessageKey(ev.messages[i].remoteJid, ev.messages[i].id)] = ev.messages[i]

\* the history of a group has been written and its fetch has not completed
C16_Witness ==
    /\ hist.kind = "messaging-history.set"
    /\ hist.ev = History(GroupG, <<WAMessage(GroupG, "m1", FALSE), WAMessage(ChatX, "m2", FALSE)>>)
    /\ InFlightFor(GroupG)
    /\ GroupKey(GroupG) \notin DOMAIN store
    /\ {ChatKey(GroupG), ContactKey(UserP), MessageKey(GroupG, "m1"), MessageKey(ChatX, "m2")}
            \subseteq DOMAIN store

LacksMetadata(data, id) ==
    ChatKey(id) \in DOMAIN data => ~HasField(data[ChatKey(id)], "metadata")

\* chats.upsert has just handled the group's chat and left it without metadata
UpsertedGroup(g) ==
    /\ hist.kind = "chats.upsert"
    /\ decodeJid(hist.ev[1].id) = g
    /\ isGroupJid(g)
    /\ LacksMetadata(store, g)

\* a pushMessage task has just run for a group chat that had no metadata
PushedGroup(g) ==
    /\ hist.kind = "pushMessage"
    /\ decodeJid(hist.ev.m.remoteJid) = g
    /\ isGroupJid(g)
    /\ LacksMetadata(hist.before, g)

\* C17: when a group-metadata fetch fails, no error reaches the caller of
\* the handler or task, the group chat entity stays stored without metadata,
\* and the next event for that group chat that finds metadata missing issues
\* a new fetch.
C17_FailureSwallowed ==
    /\ ~hist.crashed
    /\ hist.kind = "fetch.catch" => store = hist.before
    /\ \A g \in {GroupG} :
        /\ UpsertedGroup(g) =>
            \E f \in pending : f.id = g /\ f.chatData = store[ChatKey(g)]
        /\ (PushedGroup(g) /\ HasField(hist.ev.md, "failed")) =>
            ChatKey(g) \in DOMAIN store /\ LacksMetadata(store, g)
        /\ (PushedGroup(g) /\ ~HasField(hist.ev.md, "failed")) =>
            ChatKey(g) \in DOMAIN store /\ store[ChatKey(g)].metadata = hist.ev.md

\* the group's fetch has failed, its chat is stored without metadata, and
\* the next chats.upsert for it has issued a new fetch
C17_Witness ==
    /\ UpsertedGroup(GroupG)
    /\ GroupG \in hist.failed
    /\ ChatKey(GroupG) \in DOMAIN hist.before
    /\ InFlightFor(GroupG)

\* the tier the specification assigns to each kind of event
AssignedTier(kind) ==
    IF kind \in {"presence.update", "message-receipt.update", "messages.reaction"} THEN "AUX"
    ELSE IF kind = "chats.delete" THEN "NOISE"
    ELSE "CORE"

\* C18: every inbound event is enqueued under the tier assigned to its kind:
\* connection, credential, history-sync, message, chat, contact, group, call
\* and blocklist events (including chats.update and contacts.update) as CORE,
\* presence, receipt and reaction events as AUX, and chats.delete as NOISE.
C18_TierAsAssigned ==
    hist.kind \in DOMAIN EventPriority => hist.tier = AssignedTier(hist.kind)

-----------------------------------------------------------------------------
(* Claims on single pushMessage tasks (SpecWindow) *)

\* the n entries of a map that were inserted last
Newest(keys, n) == SubSeq(keys, Len(keys) - n + 1, Len(keys))

\* a map that is cut to its `keep` newest entries once it holds more than `cap`
Hysteresis(keys, cap, keep) == IF Len(keys) > cap THEN Newest(keys, keep) ELSE keys

C30_QuotedCached ==
    /\ hist.last = "quote" => StanzaId(hist.nQuote) \in Range(Window(hist.chat))
    /\ hist.last = "samechat" => "q0" \in Range(Window(hist.chat))

-----------------------------------------------------------------------------
(* The configuration database (config module): values                       *)
(*                                                                          *)
(* A JavaScript value is a record with its type and a sequence of integers: *)
(* a number is <<m, s>> for m / 10^s (s = 0 for an integer), a boolean is   *)
(* <<1>> or <<0>>, a string is its UTF-16 code units.                       *)

Null == [t |-> "null", v |-> <<>>]
Num(n) == [t |-> "number", v |-> <<n, 0>>]
Bool(b) == [t |-> "boolean", v |-> IF b THEN <<1>> ELSE <<0>>]
Str(units) == [t |-> "string", v |-> units]

\* a === b
Same(a, b) == a.t = b.t /\ a.v = b.v

-----------------------------------------------------------------------------
(* encodeMeta and decodeMeta (part_000 27-88) *)

RECURSIVE FloorLog2(_)
FloorLog2(a) == IF a < 2 THEN 0 ELSE 1 + FloorLog2(a \div 2)

RECURSIVE Pow2(_)
Pow2(e) == IF e = 0 THEN 1 ELSE 2 * Pow2(e - 1)

Abs(n) == IF n < 0 THEN -n ELSE n

\* the biased exponent of the IEEE 754 double of the integer n # 0
Exponent(n) == 1023 + FloorLog2(Abs(n))

\* the 20 high bits of its 52-bit fraction; the 32 low bits are zero for
\* every integer below 2^21
Fraction20(n) == (Abs(n) - Pow2(FloorLog2(Abs(n)))) * Pow2(20 - FloorLog2(Abs(n)))

\* DataView.setFloat64(0, value, true): the eight bytes, lowest first
Float64LE(n) ==
    IF n = 0 THEN <<0, 0, 0, 0, 0, 0, 0, 0>>
    ELSE <<0, 0, 0, 0,
           Fraction20(n) % 256,
           (Fraction20(n) \div 256) % 256,
           (Exponent(n) % 16) * 16 + (Fraction20(n) \div 65536),
           (IF n < 0 THEN 128 ELSE 0) + (Exponent(n) \div 16)>>

IsHigh(u) == u \in 55296..56319
IsLow(u) == u \in 56320..57343

\* the UTF-8 bytes of one code point
Utf8Of(cp) ==
    IF cp < 128 THEN <<cp>>
    ELSE IF cp < 2048 THEN <<192 + (cp \div 64), 128 + (cp % 64)>>
    ELSE IF cp < 65536 THEN <<224 + (cp \div 4096), 128 + ((cp \div 64) % 64), 128 + (cp % 64)>>
    ELSE <<240 + (cp \div 262144), 128 + ((cp \div 4096) % 64),
           128 + ((cp \div 64) % 64), 128 + (cp % 64)>>

\* new TextEncoder().encode(str): a surrogate pair is one code point, a
\* surrogate without its partner is encoded as U+FFFD
RECURSIVE TextEncode(_, _)
TextEncode(units, i) ==
    IF i > Len(units) THEN <<>>
    ELSE IF IsHigh(units[i]) /\ i < Len(units) /\ IsLow(units[i + 1])
    THEN Utf8Of(65536 + (units[i] - 55296) * 1024 + (units[i + 1] - 56320))
             \o TextEncode(units, i + 2)
    ELSE IF IsHigh(units[i]) \/ IsLow(units[i])
    THEN Utf8Of(65533) \o TextEncode(units, i + 1)
    ELSE Utf8Of(units[i]) \o TextEncode(units, i + 1)

\* the number of continuation bytes a lead byte announces (0: not a lead byte)
Needed(b) ==
    IF b \in 194..223 THEN 1
    ELSE IF b \in 224..239 THEN 2
    ELSE IF b \in 240..244 THEN 3
    ELSE 0

\* the range of the first continuation byte after the lead byte b
Lower(b) == IF b = 224 THEN 160 ELSE IF b = 240 THEN 144 ELSE 128
Upper(b) == IF b = 237 THEN 159 ELSE IF b = 244 THEN 143 ELSE 191

\* how many of the `need` continuation bytes after position i are there
RECURSIVE ValidRun(_, _, _, _, _)
ValidRun(bytes, i, need, lo, hi) ==
    IF need = 0 \/ i + 1 > Len(bytes) \/ bytes[i + 1] < lo \/ bytes[i + 1] > hi THEN 0
    ELSE 1 + ValidRun(bytes, i + 1, need - 1, 128, 191)

\* the code point of the sequence of 1 + need bytes at position i
CodePoint(bytes, i, need) ==
    IF need = 1 THEN (bytes[i] - 192) * 64 + (bytes[i + 1] - 128)
    ELSE IF need = 2
    THEN (bytes[i] - 224) * 4096 + (bytes[i + 1] - 128) * 64 + (bytes[i + 2] - 128)
    ELSE (bytes[i] - 240) * 262144 + (bytes[i + 1] - 128) * 4096
             + (bytes[i + 2] - 128) * 64 + (bytes[i + 3] - 128)

\* the UTF-16 code units of one code point
UnitsOf(cp) ==
    IF cp < 65536 THEN <<cp>>
    ELSE <<55296 + ((cp - 65536) \div 1024), 56320 + ((cp - 65536) % 1024)>>

\* the units decoded at position i, given how many continuation bytes are valid
DecodedAt(bytes, i, need, run) ==
    IF bytes[i] < 128 THEN <<bytes[i]>>
    ELSE IF need > 0 /\ run = need THEN UnitsOf(CodePoint(bytes, i, need))
    ELSE <<65533>>

\* the UTF-8 decoder without the fatal flag: a malformed sequence yields one
\* U+FFFD and decoding resumes at the first byte that is not part of it
RECURSIVE Utf8Decode(_, _)
Utf8Decode(bytes, i) ==
    IF i > Len(bytes) THEN <<>>
    ELSE DecodedAt(bytes, i, Needed(bytes[i]),
                   ValidRun(bytes, i, Needed(bytes[i]), Lower(bytes[i]), Upper(bytes[i])))
         \o Utf8Decode(bytes,
                i + 1 + ValidRun(bytes, i, Needed(bytes[i]), Lower(bytes[i]), Upper(bytes[i])))

StartsWithBOM(bytes) ==
    Len(bytes) >= 3 /\ bytes[1] = 239 /\ bytes[2] = 187 /\ bytes[3] = 191

\* new TextDecoder().decode(bytes): a leading byte order mark is dropped
TextDecode(bytes) == Utf8Decode(bytes, IF StartsWithBOM(bytes) THEN 4 ELSE 1)

IsDigitUnit(u) == u \in 48..57
AllDigitUnits(text) == \A i \in 1..Len(text) : IsDigitUnit(text[i])

\* the text after an optional leading "-"
Unsigned(text) == IF text # <<>> /\ text[1] = 45 THEN Tail(text) ELSE text

\* the position of the first "." of the text, or one past its end
DotAt(text) ==
    IF \E i \in 1..Len(text) : text[i] = 46
    THEN CHOOSE i \in 1..Len(text) : text[i] = 46 /\ \A j \in 1..(i - 1) : text[j] # 46
    ELSE Len(text) + 1

IntPart(text) == SubSeq(text, 1, DotAt(text) - 1)
FracPart(text) == SubSeq(text, DotAt(text) + 1, Len(text))

\* /^-?\d+\.?\d*$/.test(text)
MatchesNumber(text) ==
    /\ IntPart(Unsigned(text)) # <<>>
    /\ AllDigitUnits(IntPart(Unsigned(text)))
    /\ AllDigitUnits(FracPart(Unsigned(text)))

RECURSIVE DigitsValue(_)
DigitsValue(text) ==
    IF text = <<>> THEN 0
    ELSE 10 * DigitsValue(SubSeq(text, 1, Len(text) - 1)) + (text[Len(text)] - 48)

RECURSIVE StripZeros(_)
StripZeros(text) ==
    IF text # <<>> /\ text[Len(text)] = 48 THEN StripZeros(SubSeq(text, 1, Len(text) - 1))
    ELSE text

Signed(text, m) == IF text[1] = 45 THEN -m ELSE m

\* parseFloat(text) of a text that matches the pattern
parseFloat(text) ==
    [t |-> "number",
     v |-> <<Signed(text, DigitsValue(IntPart(Unsigned(text))
                                      \o StripZeros(FracPart(Unsigned(text))))),
             Len(StripZeros(FracPart(Unsigned(text))))>>]

TextTrue == <<116, 114, 117, 101>>
TextFalse == <<102, 97, 108, 115, 101>>

\* part_000 27-50: do the bytes exist (encodeMeta does not return null)
Encodable(value) == value.t \in {"string", "number", "boolean"}

\* part_000 27-50
encodeMeta(value) ==
    IF value.t = "string" THEN TextEncode(value.v, 1)
    ELSE IF value.t = "number" THEN Float64LE(value.v[1])
    ELSE value.v

\* part_000 72-84
DecodeText(text) ==
    IF MatchesNumber(text) THEN parseFloat(text)
    ELSE IF text = TextTrue THEN Bool(TRUE)
    ELSE IF text = TextFalse THEN Bool(FALSE)
    ELSE Str(text)

\* part_000 64-88
decodeMeta(bytes) == IF bytes = <<>> THEN Null ELSE DecodeText(TextDecode(bytes))

\* part_000 716-719: SELECT value FROM meta WHERE key = ?
metaGet(sq, key) == IF key \in DOMAIN sq.meta THEN decodeMeta(sq.meta[key]) ELSE Null

\* part_000 720-725: INSERT OR REPLACE INTO meta (key, value) VALUES (?, ?)
metaSet(sq, key, value) ==
    IF Encodable(value) THEN [sq EXCEPT !.meta = (key :> encodeMeta(value)) @@ @] ELSE sq

\* part_000 726-729: DELETE FROM meta WHERE key = ?
metaDelete(sq, key) == [sq EXCEPT !.meta = [k \in (DOMAIN @) \ {key} |-> @[k]]]

-----------------------------------------------------------------------------
(* SpecMeta: db.meta.set, db.meta.get and db.meta.delete called one after   *)
(* another on a meta table that starts empty.  hist holds the last call,    *)
(* what it returned, and per key the value of the last set not deleted.     *)

MetaKeys == {"k", "j"}

MaxNum == 2

MetaNumbers == {Num(n) : n \in (-MaxNum)..MaxNum} \cup {Num(42)}

MetaTexts ==
    {Str(<<>>),                              \* ""
     Str(<<104, 101, 108, 108, 111>>),       \* "hello"
     Str(TextTrue),                          \* "true"
     Str(TextFalse),                         \* "false"
     Str(<<52, 50>>),                        \* "42"
     Str(<<45, 49, 46, 53, 48>>),            \* "-1.50"
     Str(<<97, 49>>),                        \* "a1"
     Str(<<233>>),                           \* "é"
     Str(<<65279, 97>>),                     \* a byte order mark, then "a"
     Str(<<55357>>),                         \* a high surrogate alone
     Str(<<55357, 56832>>)}                  \* a surrogate pair

MetaValues == MetaNumbers \cup {Bool(TRUE), Bool(FALSE), Null} \cup MetaTexts

MetaInit ==
    /\ store = <<>>
    /\ pending = {}
    /\ nEvents = 0
    /\ hist = [op |-> "none", key |-> "", ret |-> Null, written |-> <<>>]
    /\ QueueIdle
    /\ ConfigEmpty

MetaCalled(op, key, ret, written) ==
    hist' = [op |-> op, key |-> key, ret |-> ret, written |-> written]

\* db.meta.set(key, value)
MetaSet ==
    /\ \E key \in MetaKeys, value \in MetaValues :
        /\ sqlite' = metaSet(sqlite, key, value)
        /\ MetaCalled("set", key, Bool(Encodable(value)),
                      IF Encodable(value) THEN (key :> value) @@ hist.written
                      ELSE hist.written)
    /\ UNCHANGED <<storeVars, queueVars, rowCaches, rows>>

\* db.meta.get(key)
MetaGet ==
    /\ \E key \in MetaKeys :
        /\ sqlite' = sqlite
        /\ MetaCalled("get", key, metaGet(sqlite, key), hist.written)
    /\ UNCHANGED <<storeVars, queueVars, rowCaches, rows>>

\* db.meta.delete(key)
MetaDelete ==
    /\ \E key \in MetaKeys :
        /\ sqlite' = metaDelete(sqlite, key)
        /\ MetaCalled("delete", key, Bool(TRUE),
                      [k \in (DOMAIN hist.written) \ {key} |-> hist.written[k]])
    /\ UNCHANGED <<storeVars, queueVars, rowCaches, rows>>

MetaNext ==
    \/ MetaSet
    \/ MetaGet
    \/ MetaDelete

SpecMeta == MetaInit /\ [][MetaNext]_vars

\* the last call was a get of a key whose last set, not deleted since, wrote a
\* value of one of the given types
GotAfterSet(types) ==
    /\ hist.op = "get"
    /\ hist.key \in DOMAIN hist.written
    /\ hist.written[hist.key].t \in types

\* C27: meta entries round-trip non-text scalars with their type: a get that
\* follows the set of a number n returns the number n, and a get that follows
\* the set of a boolean b returns the boolean b.
C27_ScalarRoundTrip ==
    GotAfterSet({"number", "boolean"}) => Same(hist.ret, hist.written[hist.key])

\* a text that reads as a number: an optional sign, digits, an optional
\* fraction
NumericLiteral(text) == MatchesNumber(text)

\* C28: meta entries round-trip text: a get that follows the set of a string
\* s that is not a numeric literal and not the literal true or false returns
\* the string s.
C28_TextRoundTrip ==
    (/\ GotAfterSet({"string"})
     /\ ~NumericLiteral(hist.written[hist.key].v)
     /\ hist.written[hist.key].v \notin {TextTrue, TextFalse})
        => Same(hist.ret, hist.written[hist.key])

-----------------------------------------------------------------------------
(* The flags tables, RowCache and DataWrapper (part_000 516-857).  A row is *)
(* a record of its columns; the jid column holds the identifier, a string   *)
(* the code never inspects.  A row proxy is its number in `rows`, where its *)
(* target object and the table and jid of its closure are kept; 0 stands    *)
(* for undefined.  A Map is the sequence of its entries in key order.       *)

\* part_000 516-531: the columns of the two flags tables
SCHEMAS == [chats |-> {"jid", "mute"}, settings |-> {"jid", "self", "gconly"}]

\* part_000 520, 527-528: INTEGER DEFAULT 0
DefaultRow(table, jid) == [col \in SCHEMAS[table] |-> IF col = "jid" THEN jid ELSE Num(0)]

\* part_000 611: SELECT * FROM table WHERE jid = ?
HasRow(sq, table, jid) == jid \in DOMAIN sq[table]

\* part_000 612: INSERT OR IGNORE INTO table (jid) VALUES (?)
insertRow(sq, table, jid) ==
    IF HasRow(sq, table, jid) THEN sq
    ELSE [sq EXCEPT ![table] = (jid :> DefaultRow(table, jid)) @@ @]

\* part_000 613: DELETE FROM table WHERE jid = ?
deleteRow(sq, table, jid) ==
    [sq EXCEPT ![table] = [j \in (DOMAIN @) \ {jid} |-> @[j]]]

\* part_000 619-621: UPDATE table SET col = ? WHERE jid = ?
updateCol(sq, table, col, value, jid) ==
    IF HasRow(sq, table, jid) THEN [sq EXCEPT ![table][jid][col] = value] ELSE sq

\* part_000 757
CacheKey(table, jid) == <<table, ":", jid>>

\* Map.has(key)
MapHas(map, key) == \E i \in 1..Len(map) : map[i].key = key

MapIndex(map, key) == CHOOSE i \in 1..Len(map) : map[i].key = key

\* Map.set(key, value): a new key goes last, a key the map holds keeps its place
MapSet(map, key, value) ==
    IF MapHas(map, key) THEN [map EXCEPT ![MapIndex(map, key)].row = value]
    ELSE Append(map, [key |-> key, row |-> value])

\* Map.delete(key)
MapDelete(map, key) == SelectSeq(map, LAMBDA e : e.key # key)

\* part_000 656-658
CacheGet(map, key) == IF MapHas(map, key) THEN map[MapIndex(map, key)].row ELSE 0

\* a cache that evicts one insertion too late
CacheSetLate(map, maxSize, key, value) ==
    MapSet(IF Len(map) > maxSize THEN Tail(map) ELSE map, key, value)

\* part_000 667-673
CacheSet(map, maxSize, key, value) ==
    MapSet(IF Len(map) >= maxSize THEN Tail(map) ELSE map, key, value)

\* part_000 704-705
MaxSize == [chats |-> 100, settings |-> 50]

\* the database, the caches and the proxies as one value, with the value the
\* last operation returned
DB == [sqlite |-> sqlite, rowCaches |-> rowCaches, rows |-> rows, ret |-> 0]

\* the row is not selected again after the insert: the proxy wraps the key only
RowNotSelected(sq, table, jid) == [jid |-> jid]

\* part_000 762-768: the row the proxy wraps
RowSelected(sq, table, jid) == insertRow(sq, table, jid)[table][jid]

\* part_000 771: this._createRowProxy(table, jid, row)
WithProxy(d, table, jid, row) ==
    [d EXCEPT !.rows = Append(@, [table |-> table, jid |-> jid, obj |-> row]),
              !.ret = Len(d.rows) + 1]

\* part_000 772
Cached(d, table, jid) ==
    [d EXCEPT !.rowCaches[table] = CacheSet(@, MaxSize[table], CacheKey(table, jid), d.ret)]

\* part_000 761-773: the cache does not hold the row
ProxyMiss(d, table, jid) ==
    Cached(WithProxy([d EXCEPT !.sqlite = insertRow(@, table, jid)],
                     table, jid, RowSelected(d.sqlite, table, jid)),
           table, jid)

\* part_000 754-774: db.data[table][jid]
tableGet(d, table, jid) ==
    IF CacheGet(d.rowCaches[table], CacheKey(table, jid)) # 0
    THEN [d EXCEPT !.ret = CacheGet(d.rowCaches[table], CacheKey(table, jid))]
    ELSE ProxyMiss(d, table, jid)

\* part_000 782-787: delete db.data[table][jid]
tableDelete(d, table, jid) ==
    [d EXCEPT !.sqlite = deleteRow(@, table, jid),
              !.rowCaches[table] = MapDelete(@, CacheKey(table, jid))]

\* part_000 811
Normalized(value) == IF value.t = "boolean" THEN Num(value.v[1]) ELSE value

\* part_000 805 and 814-815: the column is in the schema and has an update
\* statement (617-622 prepare none for jid)
Accepts(table, prop) == prop \in SCHEMAS[table] /\ prop # "jid"

\* part_000 816-817
RowStored(d, h, prop, value) ==
    [d EXCEPT !.sqlite = updateCol(@, d.rows[h].table, prop, value, d.rows[h].jid),
              !.rows[h].obj = (prop :> value) @@ @]

\* part_000 803-822: the set trap of the row proxy h; the sqlite, the caches
\* and the proxies after it
rowSet(d, h, prop, value) ==
    IF Accepts(d.rows[h].table, prop) THEN RowStored(d, h, prop, Normalized(value)) ELSE d

\* part_000 824-829: the get trap of the row proxy h
rowGet(d, h, prop) == d.rows[h].obj[prop]

\* row[prop] = value: when the set trap returns false the assignment does
\* nothing more in sloppy code and throws a TypeError in strict code; the
\* modules of this repository are ES modules, which are strict
Throws(accepted, strict) == strict /\ ~accepted

-----------------------------------------------------------------------------
(* SpecConfig: plugins read rows of both flags tables, write fields through *)
(* any row proxy they were handed, and delete rows, one call after another. *)
(* hist holds the last call.                                                *)

Jid(n) == "j" \o ToString(n)

Tables == {"chats", "settings"}

MaxHandles == 2

ConfigJids == {Jid(1)}

\* "name" is a column of neither table
WriteProps == {"mute", "self", "gconly", "jid", "name"}

WriteValues == {Bool(TRUE), Bool(FALSE)}

NoCall ==
    [op |-> "none", table |-> "", jid |-> "", h |-> 0, prop |-> "", value |-> Null,
     raised |-> FALSE]

ConfigInit ==
    /\ store = <<>>
    /\ pending = {}
    /\ nEvents = 0
    /\ hist = NoCall
    /\ QueueIdle
    /\ ConfigEmpty

\* the call leaves the database as d; hist takes the call
Called(d, call) ==
    /\ sqlite' = d.sqlite
    /\ rowCaches' = d.rowCaches
    /\ rows' = d.rows
    /\ hist' = call

ReadCall(d, table, jid) ==
    Called(d, [NoCall EXCEPT !.op = "read", !.table = table, !.jid = jid, !.h = d.ret])

\* const row = db.data[table][jid]
ReadRow ==
    /\ \E table \in Tables, jid \in ConfigJids :
        /\ CacheGet(rowCaches[table], CacheKey(table, jid)) # 0 \/ Len(rows) < MaxHandles
        /\ ReadCall(tableGet(DB, table, jid), table, jid)
    /\ UNCHANGED <<storeVars, queueVars>>

\* row[prop] = value, on a row proxy handed out earlier, from strict or from
\* sloppy code
WriteField ==
    /\ \E h \in 1..Len(rows), prop \in WriteProps, value \in WriteValues, strict \in BOOLEAN :
        Called(rowSet(DB, h, prop, value),
               [NoCall EXCEPT !.op = "write", !.table = rows[h].table, !.jid = rows[h].jid,
                              !.h = h, !.prop = prop, !.value = value,
                              !.raised = Throws(Accepts(rows[h].table, prop), strict)])
    /\ UNCHANGED <<storeVars, queueVars>>

\* delete db.data[table][jid]
DeleteRow ==
    /\ \E table \in Tables, jid \in ConfigJids :
        Called(tableDelete(DB, table, jid),
               [NoCall EXCEPT !.op = "delete", !.table = table, !.jid = jid])
    /\ UNCHANGED <<storeVars, queueVars>>

ConfigNext ==
    \/ ReadRow
    \/ WriteField
    \/ DeleteRow

SpecConfig == ConfigInit /\ [][ConfigNext]_vars

-----------------------------------------------------------------------------
(* Claims on the flags tables (SpecConfig) *)

\* every declared column of the row object is there and holds its default
AtDefaults(obj, table) ==
    \A col \in SCHEMAS[table] \ {"jid"} : col \in DOMAIN obj /\ obj[col] = Num(0)

\* the rows of the tables, except the row of jid in table
OtherRows(sq, table, jid) ==
    [tb \in Tables |->
        [j \in (DOMAIN sq[tb]) \ (IF tb = table THEN {jid} ELSE {}) |-> sq[tb][j]]]

\* the database after one more read of the row the last call was about
ReadAgain == tableGet(DB, hist.table, hist.jid)

\* C21: a read of an identifier the table has no row for returns a row with
\* every declared column at its default 0 and creates exactly one row, the row
\* of that identifier; a second read returns the same values and creates no
\* row.
C21_AutoCreate ==
    [][(hist'.op = "read" /\ ~HasRow(sqlite, hist'.table, hist'.jid)) =>
            /\ AtDefaults(rows'[hist'.h].obj, hist'.table)
            /\ HasRow(sqlite', hist'.table, hist'.jid)
            /\ sqlite'[hist'.table][hist'.jid] = rows'[hist'.h].obj
            /\ OtherRows(sqlite', hist'.table, hist'.jid) = OtherRows(sqlite, "", "")
            /\ ReadAgain'.sqlite = sqlite'
            /\ ReadAgain'.rows[ReadAgain'.ret].obj = rows'[hist'.h].obj]_vars

\* a row was deleted and then read again: the read created it anew, at its
\* defaults
C21_Witness ==
    /\ hist.op = "read"
    /\ hist.h = 2
    /\ hist.table = "settings"
    /\ rowCaches.settings = <<[key |-> CacheKey("settings", hist.jid), row |-> 2]>>
    /\ rows[1].table = "settings"
    /\ rows[2].obj = DefaultRow("settings", hist.jid)

\* C22: a write of a field that is not a column of the table's schema is
\* rejected: no row object and no row of the database changes, and no
\* exception is raised to the writer.
C22_UnknownRejected ==
    [][(hist'.op = "write" /\ hist'.prop \notin SCHEMAS[hist'.table]) =>
            /\ sqlite' = sqlite
            /\ rows' = rows
            /\ ~hist'.raised]_vars

\* the field of the last call, read through the table accessor
FieldRead == rowGet(ReadAgain, ReadAgain.ret, hist.prop)

\* C23: after a boolean b is written to a flag column of a row, the database
\* holds 1 for true and 0 for false in that column, and the field read back
\* through the row cache is the boolean b.
C23_BooleanRehydrated ==
    (hist.op = "write" /\ Accepts(hist.table, hist.prop) /\ hist.value.t = "boolean") =>
        /\ HasRow(sqlite, hist.table, hist.jid)
        /\ sqlite[hist.table][hist.jid][hist.prop] = Num(hist.value.v[1])
        /\ Same(FieldRead, hist.value)

\* C26: the row cache and the database are coherent: every row object the
\* cache holds has a row in its table and equals it field by field.
C26_Coherent ==
    \A table \in Tables : \A i \in 1..Len(rowCaches[table]) :
        /\ HasRow(sqlite, table, rows[rowCaches[table][i].row].jid)
        /\ rows[rowCaches[table][i].row].obj = sqlite[table][rows[rowCaches[table][i].row].jid]

-----------------------------------------------------------------------------
(* SpecRowCache: the rows of the chats table are read one identifier after  *)
(* another, Jid(1), Jid(2), ..., and between these reads the first          *)
(* identifier is read again, from the cache while the cache holds it and    *)
(* from the database afterwards.  hist holds the last read, the proxy it    *)
(* returned and, in `touched`, how many proxies existed when Jid(1) was     *)
(* last served from the cache (0: never).                                   *)

MaxJids == 102
MaxReloads == 1

\* the number of identifiers read so far
Seen == Cardinality(DOMAIN sqlite.chats)

FirstKey == CacheKey("chats", Jid(1))

RowCacheInit ==
    /\ store = <<>>
    /\ pending = {}
    /\ nEvents = 0
    /\ hist = [op |-> "none", h |-> 0, touched |-> 0]
    /\ QueueIdle
    /\ ConfigEmpty

\* the read leaves the database as d
ReadDone(d, op, touched) ==
    /\ sqlite' = d.sqlite
    /\ rowCaches' = d.rowCaches
    /\ rows' = d.rows
    /\ hist' = [op |-> op, h |-> d.ret, touched |-> touched]

\* db.data.chats[jid] for the next identifier not read so far
ReadNext ==
    /\ Seen < MaxJids
    /\ ReadDone(tableGet(DB, "chats", Jid(Seen + 1)), "next", hist.touched)
    /\ UNCHANGED <<storeVars, queueVars>>

\* db.data.chats[jid] for the first identifier, once more
ReadFirst ==
    /\ Seen >= 1
    /\ MapHas(rowCaches.chats, FirstKey) \/ Len(rows) < Seen + MaxReloads
    /\ ReadDone(tableGet(DB, "chats", Jid(1)), "first",
                IF MapHas(rowCaches.chats, FirstKey) THEN Len(rows) ELSE hist.touched)
    /\ UNCHANGED <<storeVars, queueVars>>

RowCacheNext ==
    \/ ReadNext
    \/ ReadFirst

SpecRowCache == RowCacheInit /\ [][RowCacheNext]_vars

-----------------------------------------------------------------------------
(* Claims on the row cache (SpecRowCache) *)

CachedKeys == {rowCaches.chats[i].key : i \in 1..Len(rowCaches.chats)}

\* the database after a read of the first identifier
FirstRead == tableGet(DB, "chats", Jid(1))

\* C24: when 101 distinct identifiers have been read from the table whose
\* cache has capacity 100, the cache has evicted the first identifier read
\* and no other; a read of the evicted identifier then returns its row as the
\* database holds it, through a new proxy and without a new row.
C24_FirstEvicted ==
    (Seen = MaxSize.chats + 1 /\ Len(rows) = MaxSize.chats + 1) =>
        /\ CachedKeys = {CacheKey("chats", Jid(n)) : n \in 2..(MaxSize.chats + 1)}
        /\ FirstRead.ret = Len(rows) + 1
        /\ FirstRead.rows[FirstRead.ret].obj = sqlite.chats[Jid(1)]
        /\ FirstRead.sqlite = sqlite

\* the evicted identifier was read again: the 102nd proxy is its row
C24_Witness ==
    /\ Seen = MaxSize.chats + 1
    /\ hist.op = "first"
    /\ hist.h = MaxSize.chats + 2
    /\ rows[hist.h].jid = Jid(1)
    /\ rows[hist.h].obj = sqlite.chats[Jid(1)]

\* when the entry was last touched: twice the number of proxies that existed
\* when it was inserted, or that number plus one if it was served from the
\* cache after that
LastTouch(entry) ==
    IF entry.key = FirstKey /\ hist.touched >= entry.row THEN 2 * hist.touched + 1
    ELSE 2 * entry.row

\* C25: the row cache evicts in access order: an entry that leaves the cache
\* was touched less recently than every entry that stays.
C25_AccessOrder ==
    [][\A i \in 1..Len(rowCaches.chats) :
            ~MapHas(rowCaches'.chats, rowCaches.chats[i].key) =>
                \A j \in 1..Len(rowCaches.chats) :
                    (i # j /\ MapHas(rowCaches'.chats, rowCaches.chats[j].key))
                        => LastTouch(rowCaches.chats[i]) < LastTouch(rowCaches.chats[j])]_vars

-----------------------------------------------------------------------------
(* contacts.upsert and contacts.update (socket.js 1341-1387) *)

\* conn.getContact(id) || { id }
ContactOr(mem, id) == IF Has(mem, ContactKey(id)) THEN Get(mem, ContactKey(id)) ELSE [id |-> id]

\* updated.name || updated.notify || chat.name
ContactChatName(updated, chat) ==
    IF FieldOr(updated, "name", "") # "" THEN SetField(chat, "name", updated.name)
    ELSE IF FieldOr(updated, "notify", "") # "" THEN SetField(chat, "name", updated.notify)
    ELSE chat

\* socket.js 1355-1359: the chat of a user takes the contact's name
ContactChat(mem, id, updated) ==
    IF HasChat(mem, id) /\ ~EndsWithGroup(id)
    THEN setChat(mem, id, ContactChatName(updated, getChat(mem, id)))
    ELSE Touch(mem, ChatKey(id))

\* contacts.upsert: { ...existing, ...contact }
ContactUpsertAt(mem, contact, id) ==
    IF id = <<>> \/ id = StatusJid THEN mem
    ELSE ContactChat(setContact(mem, id, contact @@ ContactOr(mem, id)), id,
                     contact @@ ContactOr(mem, id))

ContactUpsert(mem, contact) == ContactUpsertAt(mem, contact, decodeJid(contact.id))

RECURSIVE contactsUpsert(_, _)
contactsUpsert(mem, contacts) ==
    IF contacts = <<>> THEN mem
    ELSE contactsUpsert(ContactUpsert(mem, Head(contacts)), Tail(contacts))

\* a merge in which the stored fields win over the event's
ContactUpdateKeepsOld(mem, update, id) ==
    IF id = <<>> \/ id = StatusJid THEN mem
    ELSE setContact(mem, id, ContactOr(mem, id) @@ update)

\* contacts.update: { ...existing, ...update }
ContactUpdateAt(mem, update, id) ==
    IF id = <<>> \/ id = StatusJid THEN mem
    ELSE setContact(mem, id, update @@ ContactOr(mem, id))

ContactUpdate(mem, update) == ContactUpdateAt(mem, update, decodeJid(update.id))

RECURSIVE contactsUpdate(_, _)
contactsUpdate(mem, updates) ==
    IF updates = <<>> THEN mem
    ELSE contactsUpdate(ContactUpdate(mem, Head(updates)), Tail(updates))

-----------------------------------------------------------------------------
(* SpecMerge: the chat and contact events that merge into a stored entity, *)
(* one at a time, with the fetches that chats.set and chats.upsert issue   *)
(* completing at any later time.  hist is the step record of SpecStore.    *)

\* a chat the account can only read
ReadOnly(id) == [id |-> id, name |-> "N", conversationTimestamp |-> 2, readOnly |-> TRUE]

Renamed(id) == [id |-> id, name |-> "M", unreadCount |-> 4]

Pinned(id) == [id |-> id, pinned |-> 1, name |-> "P"]

Notified(id) == [id |-> id, notify |-> "Bo", imgUrl |-> "u"]

Named(id) == [id |-> id, name |-> "Cy"]

\* an upsert that carries the field the handler sets itself
Unlisted(id) == [id |-> id, isChats |-> FALSE]

MergeJids == {ChatQ, WithDevice(ChatQ), GroupG, StatusJid}

MergeChatsSet ==
    /\ Emits
    /\ \E j \in MergeJids : \E ev \in {<<WAChat(j)>>, <<ReadOnly(j)>>} :
        Handled("chats.set", ev, chatsSet(Mem(store), ev))

MergeChatsUpsert ==
    /\ Emits
    /\ \E j \in MergeJids : \E ev \in {<<WAChat(j)>>, <<Renamed(j)>>, <<Unlisted(j)>>} :
        Handled("chats.upsert", ev, chatsUpsert(Mem(store), ev))

MergeChatsUpdate ==
    /\ Emits
    /\ \E j \in MergeJids : \E ev \in {<<Archived(j)>>, <<Pinned(j)>>} :
        Handled("chats.update", ev, chatsUpdate(Mem(store), ev))

MergeContactsUpsert ==
    /\ Emits
    /\ \E j \in MergeJids : \E ev \in {<<WAContact(j)>>, <<Named(j)>>} :
        Handled("contacts.upsert", ev, contactsUpsert(Mem(store), ev))

MergeContactsUpdate ==
    /\ Emits
    /\ \E j \in MergeJids : \E ev \in {<<Notified(j)>>, <<Named(j)>>} :
        Handled("contacts.update", ev, contactsUpdate(Mem(store), ev))

MergeNext ==
    \/ MergeChatsSet
    \/ MergeChatsUpsert
    \/ MergeChatsUpdate
    \/ MergeContactsUpsert
    \/ MergeContactsUpdate
    \/ FetchSucceeds
    \/ FetchFails

SpecMerge == StoreInit /\ [][MergeNext]_vars

-----------------------------------------------------------------------------
(* Claims on the merging handlers (SpecMerge) *)

MergeKinds == {"chats.upsert", "chats.update", "contacts.upsert", "contacts.update"}

\* the key under which the last event's entity is stored
MergedKey ==
    IF hist.kind \in {"chats.upsert", "chats.update"}
    THEN ChatKey(decodeJid(hist.ev[1].id))
    ELSE ContactKey(decodeJid(hist.ev[1].id))

\* the last step is a merging handler that did not skip its event
Merges == hist.kind \in MergeKinds /\ decodeJid(hist.ev[1].id) \notin {<<>>, StatusJid}

\* every field the event carries outside `except` has the event's value in
\* the entity
EventWins(ev, except, entity) ==
    \A f \in (DOMAIN ev) \ except : f \in DOMAIN entity /\ entity[f] = ev[f]

\* every field of old outside `except` has its value in the entity
OldKept(old, except, entity) ==
    \A f \in (DOMAIN old) \ except : f \in DOMAIN entity /\ entity[f] = old[f]

\* C32 as stated: after chats.upsert, chats.update, contacts.upsert or
\* contacts.update, every field carried by the event has the event's value in
\* the stored entity, and every field of the previously stored entity that the
\* event does not carry keeps its previous value.
C32_AsStated ==
    Merges =>
        /\ MergedKey \in DOMAIN store
        /\ EventWins(hist.ev[1], {}, store[MergedKey])
        /\ MergedKey \in DOMAIN hist.before =>
               OldKept(hist.before[MergedKey], DOMAIN hist.ev[1], store[MergedKey])

\* the fields a handler sets on its own
Forced(kind) == IF kind = "chats.upsert" THEN {"isChats"} ELSE {}

\* C32 amended: after each of the four handlers every field carried by the
\* event has the event's value in the stored entity, and every field of the
\* previously stored entity that the event does not carry keeps its previous
\* value, except isChats after chats.upsert, which is true whatever the event
\* carried and whatever was stored.
C32_ShallowMerge ==
    Merges =>
        /\ MergedKey \in DOMAIN store
        /\ EventWins(hist.ev[1], Forced(hist.kind), store[MergedKey])
        /\ MergedKey \in DOMAIN hist.before =>
               OldKept(hist.before[MergedKey], DOMAIN hist.ev[1] \cup Forced(hist.kind),
                       store[MergedKey])
        /\ hist.kind = "chats.upsert" => store[MergedKey].isChats

\* chats.upsert has merged into a chat stored as not listed (isChats false):
\* a field of the event replaced another value, a field the event does not
\* carry is kept, and isChats has become true
C32_Witness ==
    /\ Merges
    /\ hist.kind = "chats.upsert"
    /\ MergedKey \in DOMAIN hist.before
    /\ ~hist.before[MergedKey].isChats
    /\ "name" \in DOMAIN hist.ev[1]
    /\ hist.before[MergedKey].name # hist.ev[1].name
    /\ "conversationTimestamp" \in DOMAIN hist.before[MergedKey] \ DOMAIN hist.ev[1]

-----------------------------------------------------------------------------
(* conn.getChatMessages (socket.js 740-745).  The key space of the store   *)
(* is enumerated in the order the keys were set first (`order`).           *)

\* array.slice(start) with one argument: a negative start counts from the
\* end, and -0 is 0
Slice(array, start) ==
    IF start < 0
    THEN SubSeq(array, (IF Len(array) + start < 0 THEN 0 ELSE Len(array) + start) + 1, Len(array))
    ELSE SubSeq(array, (IF start > Len(array) THEN Len(array) ELSE start) + 1, Len(array))

\* memoryStore.keys(pattern), the keys that start with the pattern's prefix
KeysInOrder(mem, order, prefix) ==
    SelectSeq(order, LAMBDA k : k \in KeysWithPrefix(mem, prefix))

\* memoryStore.mget(keys).filter((m) => m !== null)
Mget(mem, keys) == [i \in 1..Len(keys) |-> Get(mem, keys[i])]

getChatMessages(mem, order, chatId, limit) ==
    Slice(Mget(mem, KeysInOrder(mem, order, MessagePattern(chatId))), 0 - limit)

-----------------------------------------------------------------------------
(* SpecMessages: messages are stored and deleted by messages.upsert and    *)
(* messages.delete, and getChatMessages is called in between.  hist holds  *)
(* the order in which the keys of the store were set, and the last call.   *)

MaxStored == 2
MaxLimit == 2
MaxOps == 3

RECURSIVE PutKeys(_, _)
PutKeys(keys, written) ==
    IF written = <<>> THEN keys ELSE PutKeys(PutKey(keys, Head(written)), Tail(written))

NoRead == [op |-> "none", chatId |-> <<>>, limit |-> 0, ret |-> <<>>]

MessagesInit ==
    /\ store = <<>>
    /\ pending = {}
    /\ nEvents = 0
    /\ hist = [order |-> <<>>, call |-> NoRead]
    /\ QueueIdle
    /\ ConfigEmpty

\* a handler has run: its writes enter the key order, its deletions leave it
Stored(mem) ==
    /\ store' = mem.data
    /\ nEvents' = nEvents + 1
    /\ hist' = [order |-> SelectSeq(PutKeys(hist.order, mem.writes),
                                    LAMBDA k : k \in DOMAIN mem.data),
                call |-> NoRead]

MessagesUpsert ==
    /\ nEvents < MaxOps
    /\ \E j \in {ChatQ, GroupG}, n \in 1..MaxStored :
        Stored(messagesUpsert(Mem(store), <<WAMessage(j, MsgId(n), TRUE)>>))
    /\ UNCHANGED <<pending, queueVars, configVars>>

MessagesDelete ==
    /\ nEvents < MaxOps
    /\ \E j \in {ChatQ, GroupG}, n \in 1..MaxStored :
        Stored(messagesDelete(Mem(store), <<MessageKeyOf(j, MsgId(n))>>))
    /\ UNCHANGED <<pending, queueVars, configVars>>

ReadMessages ==
    /\ \E j \in {ChatQ, GroupG}, limit \in 0..MaxLimit :
        hist' = [hist EXCEPT !.call =
                    [op |-> "getChatMessages", chatId |-> j, limit |-> limit,
                     ret |-> getChatMessages(Mem(store), hist.order, j, limit)]]
    /\ UNCHANGED <<storeVars, queueVars, configVars>>

MessagesNext ==
    \/ MessagesUpsert
    \/ MessagesDelete
    \/ ReadMessages

SpecMessages == MessagesInit /\ [][MessagesNext]_vars

-----------------------------------------------------------------------------
(* Claims on getChatMessages (SpecMessages) *)

\* the chat's stored messages in key order
StoredOf(chatId) == Mget(Mem(store), KeysInOrder(Mem(store), hist.order, MessagePattern(chatId)))

\* C33: for every chat and every limit >= 0, getChatMessages(chatId, limit)
\* returns at most `limit` messages, all of them stored under that chat's
\* message prefix, and they are the last `limit` of that chat's stored
\* messages in key order.
C33_LastLimit ==
    hist.call.op = "getChatMessages" =>
        /\ Len(hist.call.ret) <= hist.call.limit
        /\ \A i \in 1..Len(hist.call.ret) :
               \E k \in KeysWithPrefix(Mem(store), MessagePattern(hist.call.chatId)) :
                   store[k] = hist.call.ret[i]
        /\ hist.call.ret = Last(StoredOf(hist.call.chatId), hist.call.limit)

-----------------------------------------------------------------------------
(* conn.getName (socket.js 210-244).  A result is a record: the identifier *)
(* (kind "jid") or a display name (kind "name").  The call runs to its     *)
(* await of conn.groupMetadata, and from there when the fetch settles.     *)

IsJid(jid) == [kind |-> "jid", jid |-> jid, name |-> ""]
IsName(name) == [kind |-> "name", jid |-> <<>>, name |-> name]

\* conn.user.name
BotName == "Bot"

\* the value of the call conn.setChat(jid, data): the function (638-641) has a
\* block body without a return statement
SetChatValue == "undefined"

\* value.catch(...): reading a property of undefined throws a TypeError
CatchThrows(value) == value = "undefined"

\* socket.js 238-243: chat?.name || chat?.notify || jid
NameOrJid(mem, jid) ==
    IF HasChat(mem, jid) /\ FieldOr(getChat(mem, jid), "name", "") # ""
    THEN IsName(getChat(mem, jid).name)
    ELSE IF HasChat(mem, jid) /\ FieldOr(getChat(mem, jid), "notify", "") # ""
    THEN IsName(getChat(mem, jid).notify)
    ELSE IsJid(jid)

\* socket.js 233-243: the part after the group branch
NameOfUser(mem, jid) ==
    [mem |-> Touch(mem, ChatKey(jid)),
     ret |-> IF areJidsSameUser(jid, BotLid) THEN IsName(BotName) ELSE NameOrJid(mem, jid)]

\* socket.js 216-217: the group's chat has a subject
HasSubject(mem, jid) == HasChat(mem, jid) /\ FieldOr(getChat(mem, jid), "subject", "") # ""

\* socket.js 211-219, up to the await of the fetch: the result, or the fetch
\* issued with the chat that was read in its closure
NameBegin(mem, jid, withoutContact) ==
    IF jid = <<>> THEN [mem |-> mem, ret |-> IsName("")]
    ELSE IF withoutContact THEN [mem |-> mem, ret |-> IsJid(jid)]
    ELSE IF ~isGroupJid(jid) THEN NameOfUser(mem, jid)
    ELSE IF HasSubject(mem, jid)
    THEN [mem |-> Touch(mem, ChatKey(jid)), ret |-> IsName(getChat(mem, jid).subject)]
    ELSE [mem |-> Fetch(Touch(mem, ChatKey(jid)), jid, ChatOr(mem, jid))]

\* socket.js 221-225: the chat as read before the fetch, with subject and metadata
NameChat(chat, md) == [subject |-> md.subject, metadata |-> md] @@ chat

\* socket.js 219-231 and on, from the settlement of the fetch f with md: a
\* failed fetch and an error thrown after it end in the catch clause
NameEnd(mem, f, md) ==
    IF HasField(md, "failed") THEN [mem |-> mem, ret |-> IsJid(f.id)]
    ELSE IF md.subject = "" THEN NameOfUser(mem, f.id)
    ELSE [mem |-> setChat(mem, f.id, NameChat(f.chatData, md)),
          ret |-> IF CatchThrows(SetChatValue) THEN IsJid(f.id) ELSE IsName(md.subject)]

-----------------------------------------------------------------------------
(* SpecName: calls of conn.getName, one at a time, on a store that holds   *)
(* any of three chats.  hist holds the last call: its arguments, whether   *)
(* the group's subject was cached when it was made, the outcome of its     *)
(* fetch, and what it returned.                                            *)

MaxCalls == 2

\* a group chat whose metadata is pending, one with its subject, a user's chat
NameChats ==
    [k \in {ChatKey(GroupG)} |-> [id |-> GroupG, isChats |-> TRUE]] @@
    [k \in {ChatKey(ChatQ)} |-> [id |-> ChatQ, name |-> "Al", isChats |-> TRUE]]

Titled == [k \in {ChatKey(GroupG)} |-> [id |-> GroupG, subject |-> "T", isChats |-> TRUE]]

Restrict(f, keys) == [k \in keys |-> f[k]]

\* the fetch returns metadata without a subject
Untitled(id) == [id |-> id, subject |-> ""]

NoName ==
    [calls |-> 0, state |-> "idle", raw |-> <<>>, withoutContact |-> FALSE,
     cached |-> FALSE, md |-> FetchFailed, ret |-> IsName("")]

NameInit ==
    /\ store \in {Restrict(NameChats, keys) : keys \in SUBSET DOMAIN NameChats} \cup {Titled}
    /\ pending = {}
    /\ nEvents = 0
    /\ hist = NoName
    /\ QueueIdle
    /\ ConfigEmpty

NameCalled(raw, withoutContact, call) ==
    /\ pending' = call.mem.fetches
    /\ hist' = [calls |-> hist.calls + 1,
                state |-> IF HasField(call, "ret") THEN "returned" ELSE "fetching",
                raw |-> raw, withoutContact |-> withoutContact,
                cached |-> HasSubject(Mem(store), decodeJid(raw)),
                md |-> FetchFailed,
                ret |-> IF HasField(call, "ret") THEN call.ret ELSE IsName("")]

\* conn.getName(raw, withoutContact) is called
GetNameCall ==
    /\ hist.calls < MaxCalls
    /\ hist.state # "fetching"
    /\ \E raw \in {GroupG, WithDevice(GroupG), ChatQ, BotLid, <<>>}, withoutContact \in BOOLEAN :
        NameCalled(raw, withoutContact, NameBegin(Mem(store), decodeJid(raw), withoutContact))
    /\ UNCHANGED <<store, nEvents, queueVars, configVars>>

\* the fetch of the call settles
GetNameSettles ==
    /\ \E f \in pending : \E md \in {FetchFailed, MetadataOf(f.id), Untitled(f.id)} :
        /\ store' = NameEnd(Mem(store), f, md).mem.data
        /\ pending' = pending \ {f}
        /\ hist' = [hist EXCEPT !.state = "returned", !.md = md,
                                !.ret = NameEnd(Mem(store), f, md).ret]
    /\ UNCHANGED <<nEvents, queueVars, configVars>>

\* another chat event is handled while the fetch is in flight
NameChatsUpdate ==
    /\ hist.state = "fetching"
    /\ nEvents < MaxCalls
    /\ store' = chatsUpdate(Mem(store), <<Archived(GroupG)>>).data
    /\ nEvents' = nEvents + 1
    /\ UNCHANGED <<pending, hist, queueVars, configVars>>

NameNext ==
    \/ GetNameCall
    \/ GetNameSettles
    \/ NameChatsUpdate

SpecName == NameInit /\ [][NameNext]_vars

-----------------------------------------------------------------------------
(* Claims on getName (SpecName) *)

\* the last call was for a group whose chat had no cached subject, and it
\* has returned
UncachedGroup ==
    /\ hist.state = "returned"
    /\ isGroupJid(decodeJid(hist.raw))
    /\ ~hist.withoutContact
    /\ ~hist.cached

FetchedSubject == ~HasField(hist.md, "failed") /\ hist.md.subject # ""

\* C39: for a group identifier whose chat entity has no cached subject,
\* getName returns the group's subject whenever the fetch succeeds with a
\* non-empty subject, and the chat entity is updated with that subject and
\* metadata; it returns the identifier itself only when the fetch fails.
C39_SubjectReturned ==
    UncachedGroup =>
        /\ FetchedSubject =>
               /\ hist.ret = IsName(hist.md.subject)
               /\ HasChat(Mem(store), decodeJid(hist.raw))
               /\ getChat(Mem(store), decodeJid(hist.raw)).subject = hist.md.subject
               /\ getChat(Mem(store), decodeJid(hist.raw)).metadata = hist.md
        /\ hist.ret = IsJid(decodeJid(hist.raw)) => HasField(hist.md, "failed")

-----------------------------------------------------------------------------
(* groups.update, group-participants.update (socket.js 1421-1483) and      *)
(* conn.insertAllGroup (socket.js 307-343)                                 *)

\* conn.getGroupMetadata(id) || { id }
GroupOr(mem, id) == IF Has(mem, GroupKey(id)) THEN Get(mem, GroupKey(id)) ELSE [id |-> id]

\* socket.js 1435-1440: the chat, if there is one, takes the merged metadata
GroupUpdateChat(mem, id, update, updated) ==
    IF HasChat(mem, id)
    THEN setChat(mem, id,
                 SetField(IF FieldOr(update, "subject", "") # ""
                          THEN SetField(getChat(mem, id), "subject", update.subject)
                          ELSE getChat(mem, id),
                          "metadata", updated))
    ELSE Touch(mem, ChatKey(id))

\* groups.update: { ...existing, ...update }
GroupUpdateAt(mem, update, id) ==
    IF id = <<>> THEN mem
    ELSE GroupUpdateChat(setGroupMetadata(mem, id, update @@ GroupOr(mem, id)), id, update,
                         update @@ GroupOr(mem, id))

GroupUpdate(mem, update) == GroupUpdateAt(mem, update, decodeJid(update.id))

RECURSIVE groupsUpdate(_, _)
groupsUpdate(mem, updates) ==
    IF updates = <<>> THEN mem
    ELSE groupsUpdate(GroupUpdate(mem, Head(updates)), Tail(updates))

\* group-participants.update: the group's metadata is fetched again
Refresh(mem, id) == [mem EXCEPT !.fetches = @ \cup {[id |-> id, refresh |-> TRUE]}]

groupParticipantsUpdate(mem, ev) ==
    IF decodeJid(ev.id) \in {<<>>, StatusJid} THEN mem ELSE Refresh(mem, decodeJid(ev.id))

\* the .then callback of that fetch: the chat is read when the fetch returns
RefreshThen(mem, id, metadata) ==
    setChat(setGroupMetadata(mem, id, metadata), id,
            [subject |-> metadata.subject, metadata |-> metadata, isChats |-> TRUE] @@
            ChatOr(mem, id))

\* socket.js 322-334: the chat entity written for one group
InsertedChat(gid, meta, now) ==
    [id |-> gid, subject |-> meta.subject, metadata |-> meta, isChats |-> TRUE,
     lastSync |-> now]

InsertGroup(mem, gid, meta, now) ==
    IF ~isGroupJid(gid) THEN mem ELSE setChat(mem, gid, InsertedChat(gid, meta, now))

\* socket.js 315-335, from the return of conn.groupFetchAllParticipating():
\* every entry is written; the batches of 10 are separated by an await that
\* no event handler can interleave with
RECURSIVE insertAllGroup(_, _, _)
insertAllGroup(mem, groupEntries, now) ==
    IF groupEntries = <<>> THEN mem
    ELSE insertAllGroup(InsertGroup(mem, Head(groupEntries).gid, Head(groupEntries).meta, now),
                        Tail(groupEntries), now)

-----------------------------------------------------------------------------
(* SpecGroups: the events and calls that write a group's metadata, one at  *)
(* a time, with the fetches they issue completing at any later time.  hist *)
(* is the step record of SpecStore.                                        *)

\* what the server knows of the group after it was renamed
RenamedMeta(id) == [id |-> id, subject |-> "U"]

GroupJids == {GroupG, WithDevice(GroupG)}

GroupsUpsert ==
    /\ Emits
    /\ \E j \in GroupJids : \E ev \in {<<MetadataOf(j)>>, <<RenamedMeta(j)>>} :
        Handled("groups.upsert", ev, groupsUpsert(Mem(store), ev))

GroupsUpdate ==
    /\ Emits
    /\ \E j \in GroupJids : \E ev \in {<<RenamedMeta(j)>>, <<[id |-> j, announce |-> TRUE]>>} :
        Handled("groups.update", ev, groupsUpdate(Mem(store), ev))

GroupParticipantsUpdate ==
    /\ Emits
    /\ \E j \in GroupJids \cup {StatusJid} :
        Handled("group-participants.update", [id |-> j, participants |-> <<UserP>>, action |-> "add"],
                groupParticipantsUpdate(Mem(store), [id |-> j]))

GroupsChatsSet ==
    /\ Emits
    /\ \E ev \in ChatSets(GroupG) : Handled("chats.set", ev, chatsSet(Mem(store), ev))

GroupsChatsUpsert ==
    /\ Emits
    /\ \E ev \in ChatUpserts(GroupG) : Handled("chats.upsert", ev, chatsUpsert(Mem(store), ev))

\* a pushMessage task for a message of the group, run in one step
GroupsPushMessage ==
    /\ Emits
    /\ \E m \in Pushes(GroupG) : \E md \in {FetchFailed, MetadataOf(GroupG)} :
        /\ store' = pushMessageTask(Mem(store), m, md).data
        /\ nEvents' = nEvents + 1
        /\ hist' = Step("pushMessage", "none", [m |-> m, md |-> md],
                        pushMessageTask(Mem(store), m, md))
        /\ UNCHANGED <<pending, queueVars, configVars>>

\* conn.insertAllGroup() has fetched the groups the account takes part in
InsertAllGroup ==
    /\ Emits
    /\ \E groupEntries \in {<<>>, <<[gid |-> GroupG, meta |-> MetadataOf(GroupG)]>>,
                            <<[gid |-> ChatQ, meta |-> MetadataOf(ChatQ)],
                              [gid |-> GroupG, meta |-> RenamedMeta(GroupG)]>>} :
        /\ store' = insertAllGroup(Mem(store), groupEntries, Now).data
        /\ nEvents' = nEvents + 1
        /\ hist' = Step("insertAllGroup", "none", groupEntries,
                        insertAllGroup(Mem(store), groupEntries, Now))
        /\ UNCHANGED <<pending, queueVars, configVars>>

\* the store after the fetch f has returned metadata
Fetched(mem, f, metadata) ==
    IF HasField(f, "refresh") THEN RefreshThen(mem, f.id, metadata) ELSE FetchThen(mem, f, metadata)

\* a fetch in flight returns the group's metadata
GroupsFetchSucceeds ==
    /\ \E f \in pending : \E metadata \in {MetadataOf(f.id), RenamedMeta(f.id)} :
        /\ store' = Fetched(Mem(store), f, metadata).data
        /\ pending' = pending \ {f}
        /\ hist' = Step("fetch.then", "none", f, Fetched(Mem(store), f, metadata))
    /\ UNCHANGED <<nEvents, queueVars, configVars>>

GroupsNext ==
    \/ GroupsUpsert
    \/ GroupsUpdate
    \/ GroupParticipantsUpdate
    \/ GroupsChatsSet
    \/ GroupsChatsUpsert
    \/ GroupsPushMessage
    \/ InsertAllGroup
    \/ GroupsFetchSucceeds
    \/ FetchFails

SpecGroups == StoreInit /\ [][GroupsNext]_vars

-----------------------------------------------------------------------------
(* Claims on the group metadata (SpecGroups) *)

\* the identifier in a chat key
JidOf(k) == SubSeq(k, Len(REDIS_PREFIX) + 1, Len(k))

GroupChatKeys == {k \in DOMAIN store : IsPrefix(REDIS_PREFIX, k) /\ isGroupJid(JidOf(k))}

\* C38: whenever a group chat entity in the store carries metadata, a group
\* entity is stored under the group prefix for the same identifier and the
\* chat's metadata equals it, after any sequence of groups.upsert,
\* groups.update, group-participants.update, chats.set, chats.upsert,
\* pushMessage and insertAllGroup.
C38_MetadataStored ==
    \A k \in GroupChatKeys :
        HasField(store[k], "metadata") =>
            /\ GroupKey(JidOf(k)) \in DOMAIN store
            /\ store[GroupKey(JidOf(k))] = store[k].metadata

-----------------------------------------------------------------------------
(* pushMessage tasks as the queue runs them (socket.js 61-101, 363-538):   *)
(* process() starts every task of a batch before it awaits any of them, so *)
(* each task reads its chat entity (398) from the store as the batch found *)
(* it; the tasks then resume in order.  A task of a group chat without     *)
(* metadata stays suspended in conn.groupMetadata (408) while the event    *)
(* handlers run; every other await of the task is on a value that is       *)
(* there already, and no handler runs in between.                          *)

\* socket.js 405: the task is about to await conn.groupMetadata(chat)
TaskAwaits(chatData, chat) == isGroupJid(chat) /\ ~HasField(chatData, "metadata")

\* the task is suspended with chatData and message in its closure
TaskSuspend(mem, chat, chatData, m) ==
    [mem EXCEPT !.fetches = @ \cup {[id |-> chat, chatData |-> chatData, m |-> m]}]

\* socket.js 416-532 with the chatData the task holds
PushFrom(mem, m, chat, chatData) ==
    setChat(PushNameSender(PushQuoted(mem, m, chat), m, chat), chat,
            PushWindow(PushNameChat(chatData, m, chat), m, chat))

\* socket.js 380-532 for one task of a batch: found is the store as the
\* batch found it, mem the store as the earlier tasks of the batch left it
TaskResume(mem, m, chat, found) ==
    IF m.mtype = "" \/ isStatusJid(chat) THEN mem
    ELSE IF TaskAwaits(PushChatRead(found, chat), chat)
    THEN TaskSuspend(mem, chat, PushChatRead(found, chat), m)
    ELSE PushFrom(mem, m, chat, PushChatRead(found, chat))

\* socket.js 92-97: batch.map((task) => task()) and the microtasks after it
RECURSIVE BatchRun(_, _, _)
BatchRun(mem, batch, found) ==
    IF batch = <<>> THEN mem
    ELSE BatchRun(TaskResume(mem, Head(batch), decodeJid(Head(batch).remoteJid), found),
                  Tail(batch), found)

\* socket.js 408-532: conn.groupMetadata has settled with md
TaskThen(mem, f, md) == PushFrom(mem, f.m, f.id, PushMetadata(f.chatData, f.id, md))

-----------------------------------------------------------------------------
(* SpecTasks: batches of pushMessage tasks, the handlers of messages.upsert, *)
(* chats.delete and chats.set, and the fetches of both settling at any     *)
(* later time.  hist is the step record of SpecStore with three more       *)
(* fields: batch, the messages of the latest batch whose chat no event has *)
(* replaced since; bumped, the suspended tasks whose chat has had its      *)
(* unreadCount incremented; stale, the tasks and fetches whose chat was    *)
(* entity was deleted while they were in flight.                           *)

MaxTaskEvents == 3

TaskJids == {ChatQ, GroupG}

TaskMessages == {Message(j, id, FALSE, Participant(j), NoCtx) : j \in TaskJids, id \in {"m1", "m2"}}

\* one or two tasks, of different messages
Batches ==
    {<<m>> : m \in TaskMessages} \cup
    {<<m, n>> : m \in {t \in TaskMessages : t.id = "m1"}, n \in {t \in TaskMessages : t.id = "m2"}}

IsTask(f) == HasField(f, "m")

\* process() starts the next batch when every task of the last has settled
TasksIdle == \A f \in pending : ~IsTask(f)

\* the transport or the queue takes one more step
TasksEmit == nEvents < MaxTaskEvents

TasksInit ==
    /\ store = <<>>
    /\ pending = {}
    /\ nEvents = 0
    /\ hist = [kind |-> "none", tier |-> "none", ev |-> <<>>, before |-> <<>>,
               writes |-> <<>>, failed |-> {}, crashed |-> FALSE,
               batch |-> <<>>, bumped |-> {}, stale |-> {}]
    /\ QueueIdle
    /\ ConfigEmpty

TasksStep(kind, ev, mem, batch, bumped, stale) ==
    /\ store' = mem.data
    /\ pending' = pending \cup mem.fetches
    /\ nEvents' = nEvents + 1
    /\ hist' = [Step(kind, "none", ev, mem) EXCEPT
                    !.batch = batch, !.bumped = bumped, !.stale = stale]
    /\ UNCHANGED <<queueVars, configVars>>

\* the messages of the batch whose chat the event leaves alone
BatchBut(ids) == SelectSeq(hist.batch, LAMBDA m : decodeJid(m.remoteJid) \notin ids)

\* the suspended tasks of a chat that the event increments the unreadCount of
Bumped(ev) ==
    {f \in pending : IsTask(f) /\ \E i \in 1..Len(ev) : ~ev[i].fromMe /\ ev[i].remoteJid = f.id}

RunBatch ==
    /\ TasksEmit
    /\ TasksIdle
    /\ \E batch \in Batches :
        TasksStep("batch", batch, BatchRun(Mem(store), batch, Mem(store)), batch,
                  hist.bumped, hist.stale)

TasksMessagesUpsert ==
    /\ TasksEmit
    /\ \E j \in TaskJids : \E ev \in Upserts(j) :
        TasksStep("messages.upsert", ev, messagesUpsert(Mem(store), ev), hist.batch,
                  hist.bumped \cup Bumped(ev), hist.stale)

TasksChatsDelete ==
    /\ TasksEmit
    /\ \E j \in TaskJids : \E ev \in ChatDeletes(j) :
        TasksStep("chats.delete", ev, chatsDelete(Mem(store), ev), BatchBut({j}),
                  hist.bumped, hist.stale \cup {f \in pending : f.id = j /\ ChatKey(j) \in DOMAIN store})

TasksChatsSet ==
    /\ TasksEmit
    /\ \E ev \in ChatSets(GroupG) :
        TasksStep("chats.set", ev, chatsSet(Mem(store), ev), BatchBut({GroupG}),
                  hist.bumped, hist.stale)

\* conn.groupMetadata settles for a suspended task, and the task runs to its end
TaskSettles ==
    /\ \E f \in {t \in pending : IsTask(t)} : \E md \in {FetchFailed, MetadataOf(f.id)} :
        /\ store' = TaskThen(Mem(store), f, md).data
        /\ pending' = pending \ {f}
        /\ hist' = Step("task.then", "none", f, TaskThen(Mem(store), f, md))
    /\ UNCHANGED <<nEvents, queueVars, configVars>>

\* the fetch a handler has issued returns the group's metadata
TasksFetchSucceeds ==
    /\ \E f \in {t \in pending : ~IsTask(t)} :
        /\ store' = FetchThen(Mem(store), f, MetadataOf(f.id)).data
        /\ pending' = pending \ {f}
        /\ hist' = Step("fetch.then", "none", f, FetchThen(Mem(store), f, MetadataOf(f.id)))
    /\ UNCHANGED <<nEvents, queueVars, configVars>>

\* the fetch a handler has issued rejects
TasksFetchFails ==
    /\ \E f \in {t \in pending : ~IsTask(t)} :
        /\ pending' = pending \ {f}
        /\ hist' = [Step("fetch.catch", "none", f, Mem(store)) EXCEPT !.failed = @ \cup {f.id}]
    /\ UNCHANGED <<store, nEvents, queueVars, configVars>>

TasksNext ==
    \/ RunBatch
    \/ TasksMessagesUpsert
    \/ TasksChatsDelete
    \/ TasksChatsSet
    \/ TaskSettles
    \/ TasksFetchSucceeds
    \/ TasksFetchFails

SpecTasks == TasksInit /\ [][TasksNext]_vars

-----------------------------------------------------------------------------
(* Claims on concurrent tasks (SpecTasks) *)

\* every task of the latest batch has run to its end
BatchDone == hist.kind \in {"batch", "task.then"} /\ TasksIdle

\* the message is in the window of its chat, or the window has been trimmed
InWindow(m, chat) ==
    /\ ChatKey(chat) \in DOMAIN store
    /\ \/ m.id \in Range(MessagesOf(store[ChatKey(chat)]))
       \/ Len(MessagesOf(store[ChatKey(chat)])) >= WindowKeep

\* C34: pushMessage tasks of the same batch that run concurrently for one
\* chat lose no message: once the batch has completed, every message the
\* batch stored for the chat is in the chat's window unless the trim has
\* evicted it, also when the chat had no stored entity before the batch.
C34_NoMessageLost ==
    BatchDone =>
        \A i \in 1..Len(hist.batch) :
            PushStores(hist.batch[i], decodeJid(hist.batch[i].remoteJid)) =>
                InWindow(hist.batch[i], decodeJid(hist.batch[i].remoteJid))

UnreadOf(data, id) ==
    IF ChatKey(id) \in DOMAIN data THEN FieldOr(data[ChatKey(id)], "unreadCount", 0) ELSE 0

\* C35: a pushMessage task never overwrites an unreadCount increment that
\* messages.upsert made while the task was suspended: when the task
\* completes, the chat's unreadCount is not below what the handler left.
C35_IncrementKept ==
    [][\A f \in hist.bumped :
          Completes(f) /\ ChatKey(f.id) \in DOMAIN store =>
              UnreadOf(store', f.id) >= UnreadOf(store, f.id)]_vars

\* C36: after chats.delete has removed a chat, neither the completion of a
\* fetch nor a pushMessage task that was started before the deletion writes
\* the chat's entity back.
C36_NotWrittenBack ==
    [][\A f \in hist.stale :
          Completes(f) /\ ChatKey(f.id) \notin DOMAIN store =>
              ChatKey(f.id) \notin DOMAIN store']_vars

====
